---------------------------- MODULE Spec2Model ----------------------------
(***************************************************************************)
(* Layout engine of Searchlist-Converter (src/converter_functions.py):     *)
(* the line wrapper wrap_text, the column width allocator                  *)
(* equal_width_with_buffer with its fallback flex_fit_widths, and the      *)
(* row-slicing pagination of render_pages_dynamic (simulate_pages and the  *)
(* drawing loop).                                                          *)
(*                                                                         *)
(* A text is a sequence of one-character strings.  A font is its glyph     *)
(* scale: the measured width of a text is the sum of the advances of its   *)
(* characters times the scale, which is a monotonic measure.               *)
(***************************************************************************)
EXTENDS Integers, Sequences, FiniteSets, TLC

VARIABLES
    pc,                 \* position of the running call
    args,               \* arguments of the running call
    ret,                \* its return value
    loc,                \* local variables of a running render_pages_dynamic
    HYPHENATOR,         \* module global, line 46
    HYPHENATE_HEADERS   \* module global, line 47

vars == <<pc, args, ret, loc, HYPHENATOR, HYPHENATE_HEADERS>>

(***************************************************************************)
(* Values and bounds                                                       *)
(***************************************************************************)
None == "None"
Pyphen == "Pyphen"
NoRet == <<>>
NoLocals == <<>>

\* the soft-hyphen marker "­" appended to a forcibly split piece
SHY == "SHY"
HYPHEN == "-"
Space == " "

HEADER_HARD_WRAP_CHARS == 5
BODY_HARD_WRAP_CHARS == 18

\* longest text given to wrap_text
MaxLen == 4
\* largest max_width given to wrap_text
MaxWidth == 5

WrapFonts == {1, 2}
\* hard_chunk: 0 stands for None (both are falsy in every test the code makes)
HardChunks == {0, 2}

Texts(n) == UNION {[1..k -> {Space, "a", "W"}] : k \in 0..n}

(***************************************************************************)
(* Sequence helpers (Python built-ins)                                     *)
(***************************************************************************)
Max(a, b) == IF a >= b THEN a ELSE b
Min(a, b) == IF a <= b THEN a ELSE b

RECURSIVE SumSeq(_)
SumSeq(s) == IF s = <<>> THEN 0 ELSE Head(s) + SumSeq(Tail(s))

\* s[:k]
Prefix(s, k) == SubSeq(s, 1, Min(k, Len(s)))
\* s[k + 1:]: a slice that starts one character late
Suffix_OneLate(s, k) == SubSeq(s, Min(k + 1, Len(s)) + 1, Len(s))

\* s[k:]
Suffix(s, k) == SubSeq(s, Min(k, Len(s)) + 1, Len(s))

\* str.split(sep) for a one-character separator: empty pieces are kept
RECURSIVE SplitFrom(_, _, _, _)
SplitFrom(s, sep, i, cur) ==
    IF i > Len(s) THEN <<cur>>
    ELSE IF s[i] = sep THEN <<cur>> \o SplitFrom(s, sep, i + 1, <<>>)
    ELSE SplitFrom(s, sep, i + 1, Append(cur, s[i]))

split(s, sep) == SplitFrom(s, sep, 1, <<>>)

\* "".join(parts)
RECURSIVE join(_)
join(parts) == IF parts = <<>> THEN <<>> ELSE Head(parts) \o join(Tail(parts))

(***************************************************************************)
(* Text measurement                                                        *)
(***************************************************************************)
\* advance of one character in font units
Glyph(c) == IF c \in {"W", "O"} THEN 2 ELSE 1

RECURSIVE Advance(_)
Advance(text) == IF text = <<>> THEN 0 ELSE Glyph(Head(text)) + Advance(Tail(text))

\* the width measured without the font's scale
text_width_Unscaled(fragment, font) == Advance(fragment)

\* text_size(draw, text, font)[0]
text_width(fragment, font) == font * Advance(fragment)

(***************************************************************************)
(* wrap_text                                                               *)
(***************************************************************************)
\* HYPHENATOR.inserted(token): pyphen marks the boundaries it knows with its
\* default hyphen "-"; here the dictionary knows the boundary after the second
\* character of a word of four or more.
inserted(token) ==
    IF Len(token) >= 4 THEN Prefix(token, 2) \o <<HYPHEN>> \o Suffix(token, 2)
    ELSE token

\* for idx in range(len(syllables) - 1): the longest prefix of syllables that
\* fits with a "-" appended
RECURSIVE SyllableLoop(_, _, _, _, _, _)
SyllableLoop(syllables, idx, prefix, consumed, font, inner) ==
    IF idx > Len(syllables) - 1 THEN [prefix |-> prefix, consumed |-> consumed]
    ELSE LET candidate == prefix \o syllables[idx]
         IN IF text_width(candidate \o <<HYPHEN>>, font) <= inner
            THEN SyllableLoop(syllables, idx + 1, candidate, idx, font, inner)
            ELSE [prefix |-> prefix, consumed |-> consumed]

\* returns [prefix, rest]; prefix = None when no syllable split is taken
hyphen_split_once(token, use_hyphenation, font, inner) ==
    IF ~use_hyphenation \/ token = <<>> THEN [prefix |-> None, rest |-> token]
    ELSE LET syllables == split(inserted(token), SHY)
         IN IF Len(syllables) <= 1 THEN [prefix |-> None, rest |-> token]
            ELSE LET r == SyllableLoop(syllables, 1, <<>>, 0, font, inner)
                 IN IF r.consumed > 0
                    THEN [prefix |-> r.prefix \o <<SHY>>,
                          rest |-> join(SubSeq(syllables, r.consumed + 1, Len(syllables)))]
                    ELSE [prefix |-> None, rest |-> token]

\* the binary search with no room kept for the "-": the longest prefix that
\* fits by itself
FitSearch_NoHyphenRoom(remaining, lo, hi, fit, font, inner) ==
    Cardinality({m \in lo..hi : text_width(Prefix(remaining, m), font) <= inner})

\* the chunk limit taken without measuring anything
FitSearch_Unmeasured(remaining, lo, hi, fit, font, inner) == hi

\* while lo <= hi: the binary search of split_token for the longest prefix
\* that fits with a "-" appended
RECURSIVE FitSearch(_, _, _, _, _, _)
FitSearch(remaining, lo, hi, fit, font, inner) ==
    IF lo > hi THEN fit
    ELSE LET mid == (lo + hi) \div 2
         IN IF text_width(Prefix(remaining, mid) \o <<HYPHEN>>, font) <= inner
            THEN FitSearch(remaining, mid + 1, hi, mid, font, inner)
            ELSE FitSearch(remaining, lo, mid - 1, fit, font, inner)

\* the binary search over the whole of remaining, whatever the hard chunk
fit_of_Unlimited(remaining, font, inner, hard_chunk) ==
    Max(1, FitSearch(remaining, 1, Len(remaining), 0, font, inner))

\* the length of the piece the binary search cuts: if fit == 0: fit = 1
fit_of(remaining, font, inner, hard_chunk) ==
    Max(1, FitSearch(remaining, 1,
                     IF hard_chunk > 0 THEN Min(Len(remaining), hard_chunk)
                     ELSE Len(remaining),
                     0, font, inner))

\* one piece leaves remaining: the syllable prefix hs found, else the first
\* fit characters and the marker; returns [piece, rest]
cut_piece(remaining, hs, fit) ==
    IF hs.prefix # None THEN [piece |-> hs.prefix, rest |-> hs.rest]
    ELSE [piece |-> Prefix(remaining, fit) \o <<SHY>>, rest |-> Suffix(remaining, fit)]

\* while remaining: one call is one iteration; iters counts them
RECURSIVE SplitLoop(_, _, _, _, _, _, _)
RECURSIVE SplitCut(_, _, _, _, _, _, _)
SplitLoop(remaining, parts, iters, font, inner, hard_chunk, use_hyphenation) ==
    IF remaining = <<>> THEN [parts |-> parts, iters |-> iters]
    ELSE IF text_width(remaining, font) <= inner
    THEN [parts |-> Append(parts, remaining), iters |-> iters + 1]
    ELSE SplitCut(cut_piece(remaining,
                            hyphen_split_once(remaining, use_hyphenation, font, inner),
                            fit_of(remaining, font, inner, hard_chunk)),
                  parts, iters, font, inner, hard_chunk, use_hyphenation)

\* parts.append(piece); remaining = rest
SplitCut(cut, parts, iters, font, inner, hard_chunk, use_hyphenation) ==
    SplitLoop(cut.rest, Append(parts, cut.piece), iters + 1,
              font, inner, hard_chunk, use_hyphenation)

split_token(token, font, inner, hard_chunk, use_hyphenation) ==
    SplitLoop(token, <<>>, 0, font, inner, hard_chunk, use_hyphenation)

EndsWithShy(piece) == piece # <<>> /\ piece[Len(piece)] = SHY

\* the piece joins the current line, or the current line is closed and the
\* piece starts the next one
place_piece(piece, idx, st, font, inner) ==
    LET separator == IF idx = 1 /\ st.current # <<>> THEN <<Space>> ELSE <<>>
        trial == IF st.current # <<>> THEN st.current \o separator \o piece
                 ELSE piece
    IN IF st.current # <<>> /\ text_width(trial, font) > inner
       THEN [st EXCEPT !.lines = Append(@, st.current), !.current = piece]
       ELSE [st EXCEPT !.current = trial]

\* a piece that ends with the marker closes its line
close_piece(piece, st) ==
    IF EndsWithShy(piece)
    THEN [st EXCEPT !.lines = Append(@, st.current), !.current = <<>>]
    ELSE st

\* for idx, piece in enumerate(split_token(token)); st = [lines, current, iters]
RECURSIVE PieceLoop(_, _, _, _, _)
PieceLoop(pieces, idx, st, font, inner) ==
    IF idx > Len(pieces) THEN st
    ELSE PieceLoop(pieces, idx + 1,
                   close_piece(pieces[idx], place_piece(pieces[idx], idx, st, font, inner)),
                   font, inner)

\* lines.append(current) if current, before the token is split
flush_current(st) ==
    IF st.current # <<>>
    THEN [st EXCEPT !.lines = Append(@, st.current), !.current = <<>>]
    ELSE st

\* the pieces sp = [parts, iters] of a token are placed
place_token(sp, st, font, inner) ==
    PieceLoop(sp.parts, 1, [st EXCEPT !.iters = @ + sp.iters], font, inner)

\* for token in content.split(" "); st = [lines, current, iters]
RECURSIVE TokenLoop(_, _, _, _, _, _, _)
TokenLoop(tokens, i, st, font, inner, hard_chunk, use_hyphenation) ==
    IF i > Len(tokens) THEN st
    ELSE LET token == tokens[i]
             trial == IF st.current # <<>> THEN st.current \o <<Space>> \o token
                      ELSE token
         IN IF st.current # <<>> /\ text_width(trial, font) <= inner
            THEN TokenLoop(tokens, i + 1, [st EXCEPT !.current = trial],
                           font, inner, hard_chunk, use_hyphenation)
            ELSE TokenLoop(tokens, i + 1,
                           place_token(split_token(token, font, inner, hard_chunk,
                                                   use_hyphenation),
                                       flush_current(st), font, inner),
                           font, inner, hard_chunk, use_hyphenation)

\* if current: lines.append(current)
last_line(st) ==
    [lines |-> IF st.current # <<>> THEN Append(st.lines, st.current) ELSE st.lines,
     iters |-> st.iters]

\* wrap_text with the state of its loops: [lines, iters]
wrap_run(text, font, max_width, hard_chunk) ==
    IF text = <<>> THEN [lines |-> << <<>> >>, iters |-> 0]
    ELSE last_line(TokenLoop(split(text, Space), 1,
                             [lines |-> <<>>, current |-> <<>>, iters |-> 0],
                             font, Max(1, max_width), hard_chunk,
                             hard_chunk # 0 /\ HYPHENATE_HEADERS /\ HYPHENATOR # None))

wrap_text(text, font, max_width, hard_chunk) ==
    wrap_run(text, font, max_width, hard_chunk).lines

(***************************************************************************)
(* Column measurement                                                      *)
(***************************************************************************)
MAX_COL_SHARE_DEFAULT_PCT == 45
\* the query share a little above the default share
MAX_COL_SHARE_QUERY_PCT_Lower == MAX_COL_SHARE_DEFAULT_PCT + 5

\* the query share no larger than the ordinary one
MAX_COL_SHARE_QUERY_PCT_AsDefault == MAX_COL_SHARE_DEFAULT_PCT

MAX_COL_SHARE_QUERY_PCT == 60
\* guard < 10000 of the correction loops
GuardLimit == 10000

SetMax(S) == IF S = {} THEN 0 ELSE CHOOSE x \in S : \A y \in S : y <= x
SetMin(S) == CHOOSE x \in S : \A y \in S : x <= y

\* text_size(draw, "Ag", font)[1]: the line height of the font, twice the
\* advance of a narrow character
one_h_of(font) == 2 * font

\* word_re.findall(text): the maximal runs of non-blank characters
findall_words(text) == SelectSeq(split(text, Space), LAMBDA w : w # <<>>)

\* token[idx:idx + HEADER_HARD_WRAP_CHARS] for idx in range(0, len(token), 5)
hard_pieces(token) ==
    IF Len(token) > HEADER_HARD_WRAP_CHARS
    THEN {SubSeq(token, i + 1, Min(i + HEADER_HARD_WRAP_CHARS, Len(token))) :
             i \in {k \in 0..Len(token) - 1 : k % HEADER_HARD_WRAP_CHARS = 0}}
    ELSE {token}

\* header_piece_longest[j] of measure_header_and_words
header_piece_longest_of(header_text, font_header, pad_x) ==
    LET toks == findall_words(header_text)
    IN SetMax({0} \cup {text_width(piece, font_header) + 2 * pad_x :
                  piece \in UNION {hard_pieces(toks[t]) : t \in 1..Len(toks)}})

\* natural[j]: the widest unwrapped header or cell of column j
measure_header_and_words(header, rows, font_header, font_body, pad_x) ==
    LET natural_of(j) ==
            SetMax({text_width(header[j], font_header) + 2 * pad_x}
                   \cup {text_width(rows[r][j], font_body) + 2 * pad_x :
                            r \in {q \in 1..Len(rows) : j <= Min(Len(rows[q]), Len(header))}})
    IN [header_piece_longest |->
            [j \in 1..Len(header) |-> header_piece_longest_of(header[j], font_header, pad_x)],
        natural |-> [j \in 1..Len(header) |-> natural_of(j)]]

min_floor_from_font(font_body, pad_x, min_chars) ==
    text_width([i \in 1..min_chars |-> "W"], font_body) + 2 * pad_x

\* for text in col_texts: score += max(0, len(lines) - 1) * one_h
RECURSIVE WrapScoreLoop(_, _, _, _, _)
WrapScoreLoop(col_texts, k, font, inner, hard_chunk) ==
    IF k > Len(col_texts) THEN 0
    ELSE Max(0, Len(wrap_text(col_texts[k], font, inner, hard_chunk)) - 1) * one_h_of(font)
         + WrapScoreLoop(col_texts, k + 1, font, inner, hard_chunk)

compute_wrap_score(col_texts, font, col_width, pad_x, is_header, body_hard_chunk) ==
    WrapScoreLoop(col_texts, 1, font, Max(1, col_width - 2 * pad_x),
                  IF is_header THEN HEADER_HARD_WRAP_CHARS ELSE body_hard_chunk)

(***************************************************************************)
(* looks_like_query_column                                                 *)
(***************************************************************************)
\* the characters \b counts as part of a word, of those used in the texts
WordChars ==
    {"a", "W", "O", "R", "A", "N", "D", "B", "C", "I", "S", "T", "H",
     "e", "r", "c", "h", "i", "t", "s", "1", "2", "3", "5"}

\* pattern.search(t): of the alternatives of the pattern only the whole
\* words AND, OR and NOT can occur in a text over the characters used here.
\* QueryWords: the alternatives that are whole words of letters; Fold:
\* re.IGNORECASE, the upper-case form of a letter of the operators
pattern_search(t) ==
    LET QueryWords == { <<"A", "N", "D">>, <<"O", "R">>, <<"N", "O", "T">> }
        Fold(c) == CASE c = "a" -> "A" [] c = "r" -> "R" [] c = "t" -> "T" [] OTHER -> c
    IN \E w \in QueryWords : \E i \in 1..(Len(t) - Len(w) + 1) :
          /\ \A k \in 1..Len(w) : Fold(t[i + k - 1]) = w[k]
          /\ (i = 1 \/ t[i - 1] \notin WordChars)
          /\ (i + Len(w) - 1 = Len(t) \/ t[i + Len(w)] \notin WordChars)

\* t.count("(") + t.count(")") + t.count('"')
count_marks(t) == Cardinality({i \in 1..Len(t) : t[i] \in {"(", ")", "\""}})

QuerySample == 30

\* for text in list(col_texts)[:sample]
RECURSIVE QueryLoop(_, _, _)
QueryLoop(col_texts, k, score) ==
    IF k > Min(Len(col_texts), QuerySample) THEN score >= 3
    ELSE LET s2 == score + (IF pattern_search(col_texts[k]) THEN 2 ELSE 0)
                         + count_marks(col_texts[k])
         IN IF s2 >= 4 THEN TRUE ELSE QueryLoop(col_texts, k + 1, s2)

looks_like_query_column(header_text, col_texts) ==
    QueryLoop(col_texts, 1, IF pattern_search(header_text) THEN 1 ELSE 0)

(***************************************************************************)
(* flex_fit_widths                                                         *)
(***************************************************************************)
\* int(round(a * (b / c))) for a, b >= 0 and c > 0: Python rounds a half to
\* the even neighbour
round_scaled(a, b, c) ==
    LET q == (a * b) \div c
        r == (a * b) % c
    IN IF 2 * r < c THEN q
       ELSE IF 2 * r > c THEN q + 1
       ELSE IF q % 2 = 0 THEN q ELSE q + 1

SumFn(f, n) == SumSeq([i \in 1..n |-> f[i]])

\* sorted(range(n), key=..., reverse=True): descending keys, equal keys in
\* index order
RECURSIVE SortedDesc(_, _)
SortedDesc(key, left) ==
    IF left = {} THEN <<>>
    ELSE LET top == SetMax({key[i] : i \in left})
             first == SetMin({i \in left : key[i] = top})
         IN <<first>> \o SortedDesc(key, left \ {first})

\* for idx in order: one pass of the correction loop; st = [widths, diff, changed]
RECURSIVE FlexPass(_, _, _, _)
FlexPass(order, k, st, minw) ==
    IF k > Len(order) THEN st
    ELSE LET idx == order[k]
         IN IF st.diff > 0
            THEN LET s2 == [widths |-> [st.widths EXCEPT ![idx] = @ + 1],
                            diff |-> st.diff - 1, changed |-> TRUE]
                 IN IF s2.diff = 0 THEN s2 ELSE FlexPass(order, k + 1, s2, minw)
            ELSE IF st.widths[idx] > minw[idx]
            THEN LET s2 == [widths |-> [st.widths EXCEPT ![idx] = @ - 1],
                            diff |-> st.diff + 1, changed |-> TRUE]
                 IN IF s2.diff = 0 THEN s2 ELSE FlexPass(order, k + 1, s2, minw)
            ELSE FlexPass(order, k + 1, st, minw)

\* the number of passes, at most left, in which every column of active moves
\* by one pixel and diff does not pass zero
whole_passes(diff_abs, slack, active, left) ==
    Min(left, Min(diff_abs \div Cardinality(active), SetMin({slack[j] : j \in active})))

\* while diff != 0 and guard < 10000.  The passes in which the same columns
\* move are taken together; the pass that ends at diff = 0 within the columns
\* is taken column by column.
RECURSIVE FlexLoop(_, _, _, _, _)
FlexLoop(order, widths, diff, guard, minw) ==
    IF diff = 0 \/ guard >= GuardLimit THEN widths
    ELSE LET n == Len(widths)
             step == IF diff > 0 THEN 1 ELSE -1
             active == IF diff > 0 THEN 1..n ELSE {j \in 1..n : widths[j] > minw[j]}
             slack == [j \in 1..n |-> IF diff > 0 THEN diff ELSE widths[j] - minw[j]]
         IN IF active = {} THEN widths
            ELSE LET k == whole_passes(diff * step, slack, active, GuardLimit - guard)
                 IN IF k >= 1
                    THEN FlexLoop(order,
                                  [j \in 1..n |-> IF j \in active THEN widths[j] + k * step
                                                  ELSE widths[j]],
                                  diff - k * step * Cardinality(active), guard + k, minw)
                    ELSE LET s2 == FlexPass(order, 1, [widths |-> widths, diff |-> diff,
                                                       changed |-> FALSE], minw)
                         IN FlexLoop(order, s2.widths, s2.diff, guard + 1, minw)

flex_fit_widths(base, minw, target_width) ==
    LET n == Len(base)
    IN IF n = 0 THEN <<>>
       ELSE LET sum0 == SumFn(base, n)
                total == IF sum0 = 0 THEN 1 ELSE sum0
                scaled == [i \in 1..n |->
                              Max(minw[i], round_scaled(base[i], target_width, total))]
                order == SortedDesc(base, 1..n)
                widths == FlexLoop(order, scaled, target_width - SumFn(scaled, n), 0, minw)
                leftover == target_width - SumFn(widths, n)
            IN IF leftover # 0
               THEN [widths EXCEPT ![n] = Max(minw[n], widths[n] + leftover)]
               ELSE widths

(***************************************************************************)
(* equal_width_with_buffer                                                 *)
(***************************************************************************)
\* list(zip(*rows)) if rows else [[] for _ in range(n)]: zip stops at the
\* shortest row
columns_of(rows, n) ==
    IF rows = <<>> THEN [j \in 1..n |-> <<>>]
    ELSE [j \in 1..SetMin({Len(rows[r]) : r \in 1..Len(rows)}) |->
              [r \in 1..Len(rows) |-> rows[r][j]]]

column_texts_of(columns, j) == IF j <= Len(columns) THEN columns[j] ELSE <<>>

\* int(place_w * share)
cap_of(place_w, is_query, max_col_share_pct) ==
    (place_w * (IF is_query THEN MAX_COL_SHARE_QUERY_PCT ELSE max_col_share_pct)) \div 100

\* for j in order: one pass of the final correction; st = [widths, diff]
RECURSIVE ReconcilePass(_, _, _, _, _)
ReconcilePass(order, k, st, caps, minw) ==
    IF k > Len(order) \/ st.diff = 0 THEN st
    ELSE LET j == order[k]
         IN IF st.diff > 0 /\ st.widths[j] < caps[j]
            THEN ReconcilePass(order, k + 1,
                     [widths |-> [st.widths EXCEPT ![j] = @ + 1], diff |-> st.diff - 1],
                     caps, minw)
            ELSE IF st.diff < 0 /\ st.widths[j] > minw[j]
            THEN ReconcilePass(order, k + 1,
                     [widths |-> [st.widths EXCEPT ![j] = @ - 1], diff |-> st.diff + 1],
                     caps, minw)
            ELSE ReconcilePass(order, k + 1, st, caps, minw)

\* while diff != 0 and guard < 10000.  A pass in which no column can move
\* leaves the state as it was, so every later pass up to the guard changes
\* nothing either; the passes in which the same columns move are taken
\* together.
RECURSIVE ReconcileLoop(_, _, _, _, _, _)
ReconcileLoop(order, widths, diff, guard, caps, minw) ==
    IF diff = 0 \/ guard >= GuardLimit THEN widths
    ELSE LET n == Len(widths)
             step == IF diff > 0 THEN 1 ELSE -1
             active == IF diff > 0 THEN {j \in 1..n : widths[j] < caps[j]}
                       ELSE {j \in 1..n : widths[j] > minw[j]}
             slack == [j \in 1..n |-> IF diff > 0 THEN caps[j] - widths[j]
                                      ELSE widths[j] - minw[j]]
         IN IF active = {} THEN widths
            ELSE LET k == whole_passes(diff * step, slack, active, GuardLimit - guard)
                 IN IF k >= 1
                    THEN ReconcileLoop(order,
                                       [j \in 1..n |-> IF j \in active
                                                       THEN widths[j] + k * step
                                                       ELSE widths[j]],
                                       diff - k * step * Cardinality(active), guard + k,
                                       caps, minw)
                    ELSE LET s2 == ReconcilePass(order, 1,
                                                 [widths |-> widths, diff |-> diff],
                                                 caps, minw)
                         IN ReconcileLoop(order, s2.widths, s2.diff, guard + 1, caps, minw)

\* scores[j]: the wrap score of the header and of the cells of column j at
\* its present width, at least 1
scores_of(header, columns, widths, font_body, font_header, pad_x) ==
    [j \in 1..Len(header) |->
        Max(1, compute_wrap_score(<<header[j]>>, font_header, Max(widths[j], 1),
                                  pad_x, TRUE, BODY_HARD_WRAP_CHARS)
               + compute_wrap_score(column_texts_of(columns, j), font_body,
                                    Max(widths[j], 1), pad_x, FALSE,
                                    BODY_HARD_WRAP_CHARS))]

\* widths[j] = min(caps[j], widths[j] + add) with the buffer shared by score,
\* then the final correction of the score branch, in descending order of score
share_by_score(place_w, widths, buffer_width, scores, caps, minw) ==
    LET grown_by_score(total_score) ==
            [j \in 1..Len(widths) |->
                Min(caps[j], widths[j] + round_scaled(buffer_width, scores[j], total_score))]
        reconcile_by_score(grown) ==
            ReconcileLoop(SortedDesc(scores, 1..Len(grown)), grown,
                          place_w - SumFn(grown, Len(grown)), 0, caps, minw)
    IN reconcile_by_score(grown_by_score(SumFn(scores, Len(widths))))

\* the branch "if not q_idx": the buffer goes to the columns by wrap score
wrap_score_path(place_w, header, columns, widths, buffer_width, caps, minw, font_body, font_header, pad_x) ==
    share_by_score(place_w, widths, buffer_width,
                   scores_of(header, columns, widths, font_body, font_header, pad_x),
                   caps, minw)

SeqOfSet(S) == SortedDesc([i \in S |-> 0 - i], S)

need_of(tentative_target, widths, q_idx) ==
    SumSeq([k \in 1..Len(q_idx) |-> Max(0, tentative_target - widths[q_idx[k]])])

\* while tentative_target > current_max_q: the first of tentative_target,
\* tentative_target - 1, ... that the buffer pays for, or current_max_q
TargetLoop(tentative_target, current_max_q, widths, q_idx, buffer_width) ==
    IF tentative_target <= current_max_q THEN tentative_target
    ELSE SetMax({t \in current_max_q..tentative_target :
                    \/ t = current_max_q
                    \/ need_of(t, widths, q_idx) <= buffer_width})

\* for j in candidates: one pixel each while buffer is left; st = [widths, buffer]
RECURSIVE PixelPass(_, _, _, _)
PixelPass(candidates, k, st, caps) ==
    IF k > Len(candidates) \/ st.buffer <= 0 THEN st
    ELSE LET j == candidates[k]
         IN IF st.widths[j] < caps[j]
            THEN PixelPass(candidates, k + 1,
                     [widths |-> [st.widths EXCEPT ![j] = @ + 1],
                      buffer |-> st.buffer - 1], caps)
            ELSE PixelPass(candidates, k + 1, st, caps)

\* while buffer_width > 0: the buffer left after equalizing goes to the
\* query columns below their caps
RECURSIVE QueryBufferLoop(_, _, _, _)
QueryBufferLoop(widths, buffer_width, q_idx, caps) ==
    IF buffer_width <= 0 THEN widths
    ELSE LET candidates == SelectSeq(q_idx, LAMBDA j : widths[j] < caps[j])
         IN IF candidates = <<>> THEN widths
            ELSE LET add_each ==
                         Min(buffer_width \div Len(candidates),
                             SetMin({caps[candidates[k]] - widths[candidates[k]] :
                                        k \in 1..Len(candidates)}))
                 IN IF add_each <= 0
                    THEN PixelPass(candidates, 1,
                                   [widths |-> widths, buffer |-> buffer_width], caps).widths
                    ELSE QueryBufferLoop(
                             [j \in 1..Len(widths) |->
                                 IF \E k \in 1..Len(candidates) : candidates[k] = j
                                 THEN widths[j] + add_each ELSE widths[j]],
                             buffer_width - add_each * Len(candidates), q_idx, caps)

\* the query branch: the query columns are made equally wide and take the buffer
query_path(place_w, widths, buffer_width, q_idx, caps, minw) ==
    LET n == Len(widths)
        current_max_q == SetMax({widths[q_idx[k]] : k \in 1..Len(q_idx)})
        max_cap_q == SetMin({caps[q_idx[k]] : k \in 1..Len(q_idx)})
        target == TargetLoop(Min(max_cap_q, current_max_q + buffer_width \div Len(q_idx)),
                             current_max_q, widths, q_idx, buffer_width)
        need == need_of(target, widths, q_idx)
        equalized == [j \in 1..n |->
            IF \E k \in 1..Len(q_idx) : q_idx[k] = j
            THEN widths[j] + Max(0, target - widths[j]) ELSE widths[j]]
        filled == QueryBufferLoop(equalized, buffer_width - need, q_idx, caps)
        diff == place_w - SumFn(filled, n)
        order == q_idx \o SeqOfSet({j \in 1..n : \A k \in 1..Len(q_idx) : q_idx[k] # j})
    IN IF diff # 0 THEN ReconcileLoop(order, filled, diff, 0, caps, minw) ELSE filled

\* minw[j] = max(min_floor, header_piece_longest[j])
minw_of(header, font_body, font_header, pad_x) ==
    [j \in 1..Len(header) |->
        Max(min_floor_from_font(font_body, pad_x, 3),
            header_piece_longest_of(header[j], font_header, pad_x))]

\* widths[j] = max(minw[j], min(natural[j], equal))
initial_widths(place_w, header, rows, font_body, font_header, pad_x) ==
    LET n == Len(header)
        m == measure_header_and_words(header, rows, font_header, font_body, pad_x)
        minw == minw_of(header, font_body, font_header, pad_x)
        equal == Max(1, place_w \div n)
    IN [j \in 1..n |-> Max(minw[j], Min(m.natural[j], equal))]

is_query_col_of(header, rows) ==
    [j \in 1..Len(header) |->
        looks_like_query_column(header[j], column_texts_of(columns_of(rows, Len(header)), j))]

\* which return of equal_width_with_buffer is taken
path_of(place_w, header, rows, font_body, font_header, pad_x) ==
    LET n == Len(header)
        minw == minw_of(header, font_body, font_header, pad_x)
        widths == initial_widths(place_w, header, rows, font_body, font_header, pad_x)
        is_q == is_query_col_of(header, rows)
    IN IF n = 0 THEN "empty"
       ELSE IF SumFn(widths, n) > place_w \/ SumFn(minw, n) > place_w THEN "flex"
       ELSE IF place_w - SumFn(widths, n) <= 0 THEN "exact"
       ELSE IF \A j \in 1..n : ~is_q[j] THEN "score"
       ELSE "query"

equal_width_with_buffer(place_w, header, rows, font_body, font_header, pad_x, max_col_share_pct) ==
    LET n == Len(header)
        m == measure_header_and_words(header, rows, font_header, font_body, pad_x)
        minw == minw_of(header, font_body, font_header, pad_x)
        widths == initial_widths(place_w, header, rows, font_body, font_header, pad_x)
        path == path_of(place_w, header, rows, font_body, font_header, pad_x)
        columns == columns_of(rows, n)
        is_query_col == is_query_col_of(header, rows)
        buffer_width == place_w - SumFn(widths, n)
        caps == [j \in 1..n |-> cap_of(place_w, is_query_col[j], max_col_share_pct)]
        q_idx == SelectSeq([j \in 1..n |-> j], LAMBDA j : is_query_col[j])
    IN CASE path = "empty" -> <<>>
         [] path = "flex" -> flex_fit_widths(m.natural, minw, place_w)
         [] path = "exact" -> widths
         [] path = "score" -> wrap_score_path(place_w, header, columns, widths, buffer_width,
                                              caps, minw, font_body, font_header, pad_x)
         [] OTHER -> query_path(place_w, widths, buffer_width, q_idx, caps, minw)

(***************************************************************************)
(* configure_hyphenation                                                   *)
(***************************************************************************)
configure_hyphenation(enable_headers, hyphenator) ==
    /\ pc = "ready"
    /\ HYPHENATOR' = hyphenator
    /\ HYPHENATE_HEADERS' = enable_headers
    /\ UNCHANGED <<pc, args, ret, loc>>

Configure ==
    \E enable_headers \in BOOLEAN, hyphenator \in {None, Pyphen} :
        configure_hyphenation(enable_headers, hyphenator)

(***************************************************************************)
(* Specification of wrap_text: any text, font, width and hard chunk        *)
(***************************************************************************)
CallWrap ==
    /\ pc = "ready"
    /\ args.op = "wrap_text"
    /\ ret' = wrap_run(args.text, args.font, args.max_width, args.hard_chunk)
    /\ pc' = "done"
    /\ UNCHANGED <<args, loc, HYPHENATOR, HYPHENATE_HEADERS>>

\* the state before a call: its arguments drawn from inputs, hyphenation not
\* configured
Start(inputs) ==
    /\ pc = "ready"
    /\ args \in inputs
    /\ ret = NoRet
    /\ loc = NoLocals
    /\ HYPHENATOR = None
    /\ HYPHENATE_HEADERS = FALSE

NextWrap == Configure \/ CallWrap

SpecWrap ==
    Start([op : {"wrap_text"}, text : Texts(MaxLen), font : WrapFonts,
           max_width : 0..MaxWidth, hard_chunk : HardChunks])
    /\ [][NextWrap]_vars

(***************************************************************************)
(* Specification of equal_width_with_buffer: tables built of column kinds  *)
(***************************************************************************)
\* most columns of a table
MaxCols == 3

chars(n, c) == [i \in 1..n |-> c]

header_of(cols) == [j \in 1..Len(cols) |-> cols[j].header]
rows_of(cols, nrows) == [r \in 1..nrows |-> [j \in 1..Len(cols) |-> cols[j].cells[r]]]

CallWidths ==
    /\ pc = "ready"
    /\ args.op = "equal_width_with_buffer"
    /\ ret' = equal_width_with_buffer(args.place_w, args.header, args.rows, args.font_body,
                                      args.font_header, args.pad_x, MAX_COL_SHARE_DEFAULT_PCT)
    /\ pc' = "done"
    /\ UNCHANGED <<args, loc, HYPHENATOR, HYPHENATE_HEADERS>>

\* tables of up to MaxCols columns, each column of a kind: its header text and
\* its cells in the two data rows; fonts 1 (body) and 2 (header)
SpecWidths ==
    Start(LET ColumnKinds ==
                  { [header |-> <<"a">>, cells |-> << <<"a">>, <<>> >>],
                    [header |-> <<"a", "a">>,
                     cells |-> << <<"a", " ", "a", " ", "a", " ", "a", " ", "a", " ", "a",
                                    " ", "a">>,
                                  <<"a">> >>],
                    [header |-> <<"a", "a", "a", "a", "a", "W">>,
                     cells |-> << <<"a">>, <<"a">> >>],
                    [header |-> <<"O", "R">>,
                     cells |-> << <<"(", "a", " ", "O", "R", " ", "a", ")">>, <<"a">> >>],
                    [header |-> <<"a">>, cells |-> << chars(20, "W"), <<>> >>],
                    [header |-> <<"a">>,
                     cells |-> << <<"(", "a", " ", "O", "R", " ", "a", ")", " ", "a", " ",
                                    "a", " ", "a", " ", "a", " ", "a", " ", "a">>,
                                  <<"(", "(", "(">> >>] }
          IN  {[op |-> "equal_width_with_buffer", place_w |-> w,
                header |-> header_of(cols), rows |-> rows_of(cols, nrows),
                font_body |-> 1, font_header |-> 2, pad_x |-> p] :
                  w \in {0, 10, 20, 27, 30, 40, 50, 60, 80}, p \in {0, 1},
                  nrows \in {0, 2},
                  cols \in UNION {[1..n -> ColumnKinds] : n \in 0..MaxCols}})
    /\ [][CallWidths]_vars

(***************************************************************************)
(* Page geometry and fonts of render_pages_dynamic                         *)
(***************************************************************************)
DPI == 300
A4_W_MM == 210
A4_H_MM == 297
MARGIN_MM == 12
PAD_X == 16
PAD_Y == 12
LINE_GAP == 6
DEFAULT_BODY_SIZE == 24
MIN_HEADER == 16

\* int(round(mm / 25.4 * dpi))
mm_to_px(mm) == round_scaled(mm, DPI * 10, 254)

a4_pixels(orientation) ==
    IF orientation = "landscape" THEN <<mm_to_px(A4_H_MM), mm_to_px(A4_W_MM)>>
    ELSE <<mm_to_px(A4_W_MM), mm_to_px(A4_H_MM)>>

\* the two faces at the requested pixel sizes; a font is its advance of a
\* narrow character, half its size
load_fonts(size_body, size_header) == <<size_body \div 2, size_header \div 2>>

\* while True: ... header_size -= 2: the first of header_size, header_size - 2,
\* ... that passes the exit test of the loop: the minimum widths fit the page,
\* or the header size is down to min_header
HeaderSizeLoop(header, place_w, body_size, header_size) ==
    LET header_fits(s) ==
            LET fonts == load_fonts(body_size, s)
                minw_try == [j \in 1..Len(header) |->
                                Max(min_floor_from_font(fonts[1], PAD_X, 3),
                                    header_piece_longest_of(header[j], fonts[2], PAD_X))]
            IN SumFn(minw_try, Len(header)) <= place_w \/ s <= MIN_HEADER
    IN SetMax({s \in (MIN_HEADER - 1)..header_size :
                  (header_size - s) % 2 = 0 /\ header_fits(s)})

row_height_for_widths(cells, col_widths, font, pad_x, pad_y, line_gap, is_header) ==
    LET hard_chunk == IF is_header THEN HEADER_HARD_WRAP_CHARS ELSE BODY_HARD_WRAP_CHARS
        max_lines == SetMax({1} \cup
                        {Len(wrap_text(cells[idx], font, Max(1, col_widths[idx] - 2 * pad_x),
                                       hard_chunk)) : idx \in 1..Len(cells)})
    IN one_h_of(font) * max_lines + 2 * pad_y + (max_lines - 1) * line_gap

\* a row's cells wrapped to the column widths; a missing cell is ""
wrap_row_cells(row, n, col_widths, font_body) ==
    [j \in 1..n |->
        wrap_text(IF j > Len(row) THEN <<>> ELSE row[j], font_body,
                  Max(1, col_widths[j] - 2 * PAD_X), BODY_HARD_WRAP_CHARS)]

\* the measures of the running call, read off its locals l
min_block_of(l) == 2 * PAD_Y + l.one_h_body
\* avail measured to the bottom edge of the page, not of the printable area
avail_of_ToPageEdge(l, y) == (l.margin + l.place_h + l.margin) - y

avail_of(l, y) == (l.margin + l.place_h) - y
k_fit_of(l, avail) ==
    Max(1, (avail - 2 * PAD_Y + LINE_GAP) \div (l.one_h_body + LINE_GAP))
slice_h_of(l, k_used) == 2 * PAD_Y + k_used * l.one_h_body + (k_used - 1) * LINE_GAP
zeros(n) == [j \in 1..n |-> 0]
all_done(lines_per_col, offs) ==
    \A j \in 1..Len(lines_per_col) : offs[j] >= Len(lines_per_col[j])

(***************************************************************************)
(* render_pages_dynamic, one action per loop iteration                     *)
(***************************************************************************)
\* most pages the page counter of simulate_pages is followed to
MaxPages == 16

\* y = margin + band_h + header_h at the top of a counted page
sim_page_top(l) == l.margin + l.band_h + l.header_h

\* k_used of simulate_pages
sim_k_used(lines_per_col, offs, k_fit) ==
    SetMax({0} \cup {Min(k_fit, Len(lines_per_col[j]) - offs[j]) :
                        j \in 1..Len(lines_per_col)})

\* offs[j] = min(len(lines), offs[j] + min(k_fit, len(lines) - offs[j]))
sim_advance(lines_per_col, offs, k_fit) ==
    [j \in 1..Len(lines_per_col) |->
        Min(Len(lines_per_col[j]),
            offs[j] + Min(k_fit, Len(lines_per_col[j]) - offs[j]))]

\* a page started under the number of the page before it
start_page_SameIndex(l, idx, total_pages) ==
    [canvas |-> [idx |-> idx - 1, total |-> total_pages, slices |-> <<>>],
     y |-> (l.margin + l.band_h) + l.header_h]

\* a fresh canvas with its head band "Seite idx/total_pages" and table
\* header, and the y below them
start_page(l, idx, total_pages) ==
    [canvas |-> [idx |-> idx, total |-> total_pages, slices |-> <<>>],
     y |-> (l.margin + l.band_h) + l.header_h]

\* a band on every row
zebra_on_of_EveryRow(r_idx) == TRUE

\* zebra_on = ((r_idx % 2) == 0), r_idx counted from 0
zebra_on_of(r_idx) == (r_idx % 2) = 0

\* take = min(k_fit, max(0, len(lines) - offs[j])) per column
\* every column takes all the lines it has left
per_col_take_of_AllLeft(lines_per_col, offs, k_fit) ==
    [j \in 1..Len(lines_per_col) |-> Max(0, Len(lines_per_col[j]) - offs[j])]

per_col_take_of(lines_per_col, offs, k_fit) ==
    [j \in 1..Len(lines_per_col) |->
        Min(k_fit, Max(0, Len(lines_per_col[j]) - offs[j]))]

\* offs[j] += take
advance(offs, per_col_take) ==
    [j \in 1..Len(offs) |-> offs[j] + per_col_take[j]]

\* the call starts: the page geometry, the font sizes and the loop that
\* shrinks the header font
RenderBegin ==
    /\ pc = "ready"
    /\ args.op = "render_pages_dynamic"
    /\ LET page == a4_pixels(args.orientation)
           margin == mm_to_px(MARGIN_MM)
           \* custom_font_pt = 0 stands for None: both select the default size
           body_size == IF args.custom_font_pt > 0 THEN args.custom_font_pt
                        ELSE DEFAULT_BODY_SIZE
       IN loc' = [margin |-> margin, place_w |-> page[1] - 2 * margin,
                  place_h |-> page[2] - 2 * margin, body_size |-> body_size,
                  header_size |-> HeaderSizeLoop(args.header, page[1] - 2 * margin,
                                                 body_size,
                                                 Max(MIN_HEADER, body_size + 4)),
                  font_body |-> 0, font_header |-> 0, col_widths |-> <<>>,
                  one_h_body |-> 0, band_h |-> 0, header_h |-> 0,
                  wrapped_rows |-> <<>>, r |-> 0, offs |-> <<>>, y |-> 0,
                  sim_pages |-> 0, total_pages |-> 0, page_idx |-> 0,
                  pages |-> <<>>, canvas |-> <<>>, lines_per_col |-> <<>>]
    /\ pc' = "widths"
    /\ UNCHANGED <<args, ret, HYPHENATOR, HYPHENATE_HEADERS>>

\* the fonts are loaded and the column widths allotted
RenderWidths ==
    /\ pc = "widths"
    /\ LET fonts == load_fonts(loc.body_size, loc.header_size)
       IN loc' = [loc EXCEPT
                     !.font_body = fonts[1], !.font_header = fonts[2],
                     !.col_widths = equal_width_with_buffer(
                                        loc.place_w, args.header, args.rows, fonts[1],
                                        fonts[2], PAD_X, MAX_COL_SHARE_DEFAULT_PCT),
                     !.one_h_body = one_h_of(fonts[1]),
                     !.band_h = 2 * PAD_Y + one_h_of(fonts[1])]
    /\ pc' = "wrap"
    /\ UNCHANGED <<args, ret, HYPHENATOR, HYPHENATE_HEADERS>>

\* the header height and the wrapped rows; simulate_pages starts on page 1
\* with its first row
sim_begin(l, header_h) ==
    [l EXCEPT !.header_h = header_h, !.r = 1, !.offs = zeros(Len(l.col_widths)),
              !.y = sim_page_top([l EXCEPT !.header_h = header_h]), !.sim_pages = 1]

RenderWrap ==
    /\ pc = "wrap"
    /\ loc' = sim_begin(
                  [loc EXCEPT !.wrapped_rows =
                      [r \in 1..Len(args.rows) |->
                          wrap_row_cells(args.rows[r], Len(args.header), loc.col_widths,
                                         loc.font_body)]],
                  row_height_for_widths(args.header, loc.col_widths, loc.font_header,
                                        PAD_X, PAD_Y, LINE_GAP, TRUE))
    /\ pc' = "simulate"
    /\ UNCHANGED <<args, ret, HYPHENATOR, HYPHENATE_HEADERS>>

SimRunning == pc = "simulate" /\ loc.r <= Len(loc.wrapped_rows)
SimLines == loc.wrapped_rows[loc.r]
SimAvail == avail_of(loc, loc.y)

\* avail < min_block: pages += 1, y back to the top, continue
SimNewPage ==
    /\ SimRunning
    /\ SimAvail < min_block_of(loc)
    /\ loc.sim_pages < MaxPages
    /\ loc' = [loc EXCEPT !.sim_pages = @ + 1, !.y = sim_page_top(loc)]
    /\ UNCHANGED <<pc, args, ret, HYPHENATOR, HYPHENATE_HEADERS>>

\* k_used <= 0: break, on to the next row
SimRowEnd ==
    /\ SimRunning
    /\ SimAvail >= min_block_of(loc)
    /\ sim_k_used(SimLines, loc.offs, k_fit_of(loc, SimAvail)) <= 0
    /\ loc' = [loc EXCEPT !.r = @ + 1, !.offs = zeros(Len(args.header))]
    /\ UNCHANGED <<pc, args, ret, HYPHENATOR, HYPHENATE_HEADERS>>

\* a slice of k_used lines is counted
SimSlice ==
    /\ SimRunning
    /\ SimAvail >= min_block_of(loc)
    /\ LET l == loc
           k_fit == k_fit_of(l, SimAvail)
           k_used == sim_k_used(SimLines, loc.offs, k_fit)
           y == loc.y + slice_h_of(l, k_used)
           offs == sim_advance(SimLines, loc.offs, k_fit)
       IN /\ k_used > 0
          /\ loc' = IF all_done(SimLines, offs)
                    THEN [loc EXCEPT !.y = y, !.r = @ + 1, !.offs = zeros(Len(args.header))]
                    ELSE IF y > l.margin + l.place_h - min_block_of(l)
                    THEN [loc EXCEPT !.offs = offs, !.sim_pages = @ + 1,
                                     !.y = sim_page_top(l)]
                    ELSE [loc EXCEPT !.offs = offs, !.y = y]
    /\ UNCHANGED <<pc, args, ret, HYPHENATOR, HYPHENATE_HEADERS>>

\* lines_per_col of data row r, wrapped again when the drawing loop enters it
row_lines(r) ==
    IF r <= Len(args.rows)
    THEN wrap_row_cells(args.rows[r], Len(args.header), loc.col_widths, loc.font_body)
    ELSE <<>>

\* simulate_pages returns max(1, pages); the first page is started
SimReturn ==
    /\ pc = "simulate"
    /\ loc.r > Len(loc.wrapped_rows)
    /\ LET total_pages == Max(1, loc.sim_pages)
           st == start_page(loc, 1, total_pages)
       IN loc' = [loc EXCEPT !.total_pages = total_pages, !.page_idx = 1,
                             !.canvas = st.canvas, !.y = st.y, !.r = 1,
                             !.offs = zeros(Len(args.header)),
                             !.lines_per_col = row_lines(1)]
    /\ pc' = "draw"
    /\ UNCHANGED <<args, ret, HYPHENATOR, HYPHENATE_HEADERS>>

DrawRunning == pc = "draw" /\ loc.r <= Len(args.rows)
DrawLines == loc.lines_per_col

\* the head of an iteration of the drawing loop: with less than a minimal
\* block left the canvas is closed and a new page started
DrawHead ==
    IF avail_of(loc, loc.y) < min_block_of(loc)
    THEN LET st == start_page(loc, loc.page_idx + 1, loc.total_pages)
         IN [loc EXCEPT !.pages = Append(@, loc.canvas), !.page_idx = @ + 1,
                        !.canvas = st.canvas, !.y = st.y]
    ELSE loc

\* k_used <= 0: break, on to the next row
DrawRowEnd ==
    /\ DrawRunning
    /\ LET h == DrawHead
           k_fit == k_fit_of(h, avail_of(h, h.y))
           per_col_take == per_col_take_of(DrawLines, h.offs, k_fit)
       IN /\ SetMax({0} \cup {per_col_take[j] : j \in 1..Len(per_col_take)}) <= 0
          /\ loc' = [h EXCEPT !.r = @ + 1, !.offs = zeros(Len(args.header)),
                              !.lines_per_col = row_lines(loc.r + 1)]
    /\ UNCHANGED <<pc, args, ret, HYPHENATOR, HYPHENATE_HEADERS>>

\* a slice of the row is drawn on the canvas
DrawSlice ==
    /\ DrawRunning
    /\ LET h == DrawHead
           l == h
           k_fit == k_fit_of(l, avail_of(l, h.y))
           per_col_take == per_col_take_of(DrawLines, h.offs, k_fit)
           k_used == SetMax({0} \cup {per_col_take[j] : j \in 1..Len(per_col_take)})
           slice_h == slice_h_of(l, k_used)
           drawn == [row |-> h.r, zebra_on |-> zebra_on_of(h.r - 1), y |-> h.y,
                     slice_h |-> slice_h, offs |-> h.offs, take |-> per_col_take]
           canvas == [h.canvas EXCEPT !.slices = Append(@, drawn)]
           offs == advance(h.offs, per_col_take)
           y == h.y + slice_h
       IN /\ k_used > 0
          /\ loc' = IF ~all_done(DrawLines, offs) /\ y > l.margin + l.place_h - min_block_of(l)
                    THEN LET st == start_page(l, h.page_idx + 1, h.total_pages)
                         IN [h EXCEPT !.offs = offs, !.pages = Append(@, canvas),
                                      !.page_idx = @ + 1, !.canvas = st.canvas,
                                      !.y = st.y]
                    ELSE [h EXCEPT !.offs = offs, !.canvas = canvas, !.y = y]
    /\ UNCHANGED <<pc, args, ret, HYPHENATOR, HYPHENATE_HEADERS>>

\* pages.append(canvas); return pages
DrawReturn ==
    /\ pc = "draw"
    /\ loc.r > Len(args.rows)
    /\ ret' = Append(loc.pages, loc.canvas)
    /\ pc' = "done"
    /\ UNCHANGED <<args, loc, HYPHENATOR, HYPHENATE_HEADERS>>

(***************************************************************************)
(* Specification of render_pages_dynamic: small tables in large type       *)
(***************************************************************************)
\* most data rows of a table
MaxRows == 2

Repeat(n, word) == [i \in 1..(2 * n - 1) |-> IF i % 2 = 1 THEN word ELSE Space]

Orientations == {"portrait", "landscape"}

NextPages ==
    \/ RenderBegin
    \/ RenderWidths
    \/ RenderWrap
    \/ SimNewPage
    \/ SimRowEnd
    \/ SimSlice
    \/ SimReturn
    \/ DrawRowEnd
    \/ DrawSlice
    \/ DrawReturn

\* header rows of one and of two columns; data rows of two cells, of which a
\* table of one column takes the first of each; custom_font_pt, 0 being None
SpecPages ==
    Start(LET PageHeaders ==
                  { << <<"a">> >>,
                    << <<"a">>, <<"a", "a">> >>,
                    << Repeat(7, "a") >> }
              PageRows ==
                  { << <<"a">>, <<"a">> >>,
                    << Repeat(7, "a"), <<"a">> >>,
                    << <<>>, Repeat(5, "a") >>,
                    << <<"a">>, <<Space>> >>,
                    << <<Space>>, <<Space>> >> }
          IN  {[op |-> "render_pages_dynamic", header |-> h,
                rows |-> [r \in 1..Len(rs) |-> SubSeq(rs[r], 1, Len(h))],
                orientation |-> o, custom_font_pt |-> s] :
                  h \in PageHeaders, o \in Orientations, s \in {0, 300, 700},
                  rs \in UNION {[1..n -> PageRows] : n \in 0..MaxRows}})
    /\ [][NextPages]_vars

(***************************************************************************)
(* Properties of render_pages_dynamic                                      *)
(***************************************************************************)
PagesDone == pc = "done" /\ args.op = "render_pages_dynamic"

\* the slices of the pages, in page order
RECURSIVE AllSlices(_)
AllSlices(pages) ==
    IF pages = <<>> THEN <<>> ELSE Head(pages).slices \o AllSlices(Tail(pages))

\* the numbers of the lines of column j of row r that the slices draw, in the
\* order they are drawn
RECURSIVE DrawnLines(_, _, _)
DrawnLines(slices, r, j) ==
    IF slices = <<>> THEN <<>>
    ELSE (IF Head(slices).row = r
          THEN [i \in 1..Head(slices).take[j] |-> Head(slices).offs[j] + i]
          ELSE <<>>) \o DrawnLines(Tail(slices), r, j)

\* the slices come in row order
RowsInOrder(slices) ==
    \A a, b \in 1..Len(slices) : a < b => slices[a].row <= slices[b].row

\* every line of every cell is drawn once, in line order
EveryLineOnce(slices) ==
    \A r \in 1..Len(args.rows) : \A j \in 1..Len(args.header) :
        DrawnLines(slices, r, j) = [i \in 1..Len(loc.wrapped_rows[r][j]) |-> i]

\* every data row is drawn in at least one slice
NoRowSkipped(slices) ==
    \A r \in 1..Len(args.rows) : \E k \in 1..Len(slices) : slices[k].row = r

\* C4: when render_pages_dynamic returns, the slices of its pages, in page
\* order, come in row order, draw every wrapped line of every cell exactly
\* once and in line order, and leave out no data row.
C4_EveryLineOnceNoRowSkipped ==
    PagesDone => /\ RowsInOrder(AllSlices(ret))
                 /\ EveryLineOnce(AllSlices(ret))
                 /\ NoRowSkipped(AllSlices(ret))

\* C5: the page total of simulate_pages is the number of pages returned, and
\* page i of them carries the indicator i/N with i <= N.
C5_PageCountMatches ==
    PagesDone => /\ Len(ret) = loc.total_pages
                 /\ \A i \in 1..Len(ret) :
                        /\ ret[i].idx = i
                        /\ ret[i].total = loc.total_pages
                        /\ ret[i].idx <= ret[i].total

\* the most lines of a cell of a wrapped row
MostLines(lines_per_col) ==
    SetMax({0} \cup {Len(lines_per_col[j]) : j \in 1..Len(lines_per_col)})

\* a page for every slice that progress allows, one line of a row at least
\* per slice, and a page for every row, after the first page
ProgressBound ==
    1 + Len(loc.wrapped_rows)
      + SumSeq([r \in 1..Len(loc.wrapped_rows) |-> MostLines(loc.wrapped_rows[r])])

\* C6: pagination finishes: neither simulate_pages nor the drawing loop
\* goes through more pages than the progress of one line per iteration
\* allows, with one page more for the canvas the drawing loop closes last.
C6_PaginationFinishes ==
    /\ pc = "simulate" => loc.sim_pages <= ProgressBound
    /\ pc = "draw" => loc.page_idx <= ProgressBound + 1

(***************************************************************************)
(* Properties of equal_width_with_buffer                                   *)
(***************************************************************************)
WidthsDone == pc = "done" /\ args.op = "equal_width_with_buffer"

NCols(a) == Len(a.header)
MinW(a) == minw_of(a.header, a.font_body, a.font_header, a.pad_x)
IsQuery(a) == is_query_col_of(a.header, a.rows)
Caps(a) == [j \in 1..NCols(a) |->
               cap_of(a.place_w, IsQuery(a)[j], MAX_COL_SHARE_DEFAULT_PCT)]
PathOf(a) == path_of(a.place_w, a.header, a.rows, a.font_body, a.font_header, a.pad_x)

\* the minimum widths fit the page
MinimumsFit(a) == SumFn(MinW(a), NCols(a)) <= a.place_w
\* every minimum is within its cap
MinimumsWithinCaps(a) == \A j \in 1..NCols(a) : MinW(a)[j] <= Caps(a)[j]
\* the caps together reach the page width
CapsReachPage(a) == SumFn(Caps(a), NCols(a)) >= a.place_w

\* C1: the returned widths sum to exactly place_w (stated for the tables that
\* have a column and whose minimum widths fit the page and their caps; it
\* fails for the others as well).
C1_SumIsPlaceW ==
    (WidthsDone /\ NCols(args) >= 1 /\ MinimumsFit(args) /\ MinimumsWithinCaps(args)) =>
        SumFn(ret, NCols(args)) = args.place_w

\* C2: every returned width is at least the column's minimum minw[j].
C2_AtLeastMinimum ==
    WidthsDone => \A j \in 1..NCols(args) : ret[j] >= MinW(args)[j]

\* C3: no column that is not query-like is wider than int(place_w * 0.45)
\* (stated for the tables whose minimums fit the page and are within the
\* caps, and whose caps reach the page width; it fails for others as well).
C3_OrdinaryWithinCap ==
    (WidthsDone /\ MinimumsFit(args) /\ MinimumsWithinCaps(args) /\ CapsReachPage(args)) =>
        \A j \in 1..NCols(args) : ~IsQuery(args)[j] => ret[j] <= Caps(args)[j]

(***************************************************************************)
(* Properties of wrap_text                                                 *)
(***************************************************************************)
WrapDone == pc = "done" /\ args.op = "wrap_text"

inner_of(a) == Max(1, a.max_width)

StripShy(line) == IF EndsWithShy(line) THEN Prefix(line, Len(line) - 1) ELSE line

\* the non-empty space-separated words of a text
Words(text) == SelectSeq(split(text, Space), LAMBDA w : w # <<>>)

\* the lines put back together: a line ending in the marker continues
\* directly in the next line, every other line is followed by one space
RECURSIVE Rejoin(_)
Rejoin(lines) ==
    IF lines = <<>> THEN <<>>
    ELSE IF Len(lines) = 1 THEN StripShy(Head(lines))
    ELSE IF EndsWithShy(Head(lines)) THEN StripShy(Head(lines)) \o Rejoin(Tail(lines))
    ELSE Head(lines) \o <<Space>> \o Rejoin(Tail(lines))

\* no single character of the text is wider than the inner width
EveryCharFits(a) ==
    \A i \in 1..Len(a.text) : a.font * Glyph(a.text[i]) <= inner_of(a)

\* every single character of the text is wider than the inner width
NoCharFits(a) ==
    \A i \in 1..Len(a.text) : a.font * Glyph(a.text[i]) > inner_of(a)

OneToken(a) == a.text # <<>> /\ \A i \in 1..Len(a.text) : a.text[i] # Space

\* C7: wrap_text returns at least one line for every text and width.
C7_NonEmptyResult == WrapDone => Len(ret.lines) >= 1

\* C8: when no single character of the text is wider than the inner width,
\* every returned line, its trailing soft-hyphen marker ignored, measures at
\* most the inner width.
C8_LinesFit ==
    (WrapDone /\ EveryCharFits(args)) =>
        \A k \in 1..Len(ret.lines) :
            args.font * Advance(StripShy(ret.lines[k])) <= inner_of(args)

\* a text of several words whose first word was split
C8_Witness ==
    /\ WrapDone /\ EveryCharFits(args)
    /\ Len(Words(args.text)) >= 2
    /\ EndsWithShy(ret.lines[1])
    /\ ~EndsWithShy(ret.lines[Len(ret.lines)])

C10_OneCharLines ==
    (WrapDone /\ OneToken(args) /\ NoCharFits(args)) =>
        /\ ret.iters <= Len(args.text)
        /\ Len(ret.lines) = Len(args.text)
        /\ \A k \in 1..Len(ret.lines) : ret.lines[k] = <<args.text[k], SHY>>

C10_Witness ==
    /\ WrapDone /\ OneToken(args) /\ NoCharFits(args)
    /\ Len(args.text) >= 3
    /\ Len(ret.lines) = Len(args.text)

(***************************************************************************)
(* Slices and the printable area                                           *)
(***************************************************************************)
\* the canvases closed so far and the one being drawn on
DrawnPages ==
    IF pc = "done" THEN ret
    ELSE IF pc = "draw" THEN Append(loc.pages, loc.canvas)
    ELSE <<>>

\* C11: every slice drawn on a page of render_pages_dynamic ends at or above
\* the bottom of the printable area: after the slice the cursor y is at
\* most margin + place_h.
C11_SlicesWithinPage ==
    \A p \in 1..Len(DrawnPages) : \A k \in 1..Len(DrawnPages[p].slices) :
        DrawnPages[p].slices[k].y + DrawnPages[p].slices[k].slice_h
            <= loc.margin + loc.place_h

\* a row is cut at the page bottom: its first slice takes what the page
\* holds and the row goes on on the next page
C11_Witness ==
    /\ PagesDone
    /\ \E p \in 1..Len(ret) : \E k \in 1..Len(ret[p].slices) :
          /\ \E j \in 1..Len(args.header) :
                ret[p].slices[k].offs[j] + ret[p].slices[k].take[j]
                    < Len(loc.wrapped_rows[ret[p].slices[k].row][j])
          /\ ret[p].slices[k].y + ret[p].slices[k].slice_h
                > loc.margin + loc.place_h - min_block_of(loc)

(***************************************************************************)
(* ellipsize                                                               *)
(***************************************************************************)
\* the ellipsis marker U+2026, one character
ELLIPSIS == "ELLIPSIS"

\* a search that answers with the number of candidates that do not fit
EllipsisSearch_Reversed(value, font, max_width, lo, hi) ==
    hi - Cardinality({k \in lo..(hi - 1) :
            text_width(Append(Prefix(value, k), ELLIPSIS), font) <= max_width})

\* a search that measures nothing: every candidate is taken to fit
EllipsisSearch_Unmeasured(value, font, max_width, lo, hi) == hi

\* while lo < hi: mid = (lo + hi) // 2; candidate = value[:mid] + ellipsis
RECURSIVE EllipsisSearch(_, _, _, _, _)
EllipsisSearch(value, font, max_width, lo, hi) ==
    IF lo < hi
    THEN IF text_width(Append(Prefix(value, (lo + hi) \div 2), ELLIPSIS), font) <= max_width
         THEN EllipsisSearch(value, font, max_width, ((lo + hi) \div 2) + 1, hi)
         ELSE EllipsisSearch(value, font, max_width, lo, (lo + hi) \div 2)
    ELSE lo

\* the text is a sequence of characters; None and "" are both <<>>
ellipsize(text, font, max_width) ==
    IF text = <<>> THEN <<>>
    ELSE IF text_width(text, font) <= max_width THEN text
    ELSE LET lo == EllipsisSearch(text, font, max_width, 0, Len(text))
         IN IF lo > 0 THEN Append(Prefix(text, Max(lo - 1, 0)), ELLIPSIS)
            ELSE <<ELLIPSIS>>

(***************************************************************************)
(* Specification of ellipsize: a text cut to one width, then to another    *)
(***************************************************************************)
CallEllipsize ==
    /\ pc = "ready"
    /\ args.op = "ellipsize"
    /\ ret' = [text |-> ellipsize(args.text, args.font, args.max_width)]
    /\ pc' = "done"
    /\ UNCHANGED <<args, loc, HYPHENATOR, HYPHENATE_HEADERS>>

\* the same text and font cut again, to a width that is no smaller; the
\* first call is remembered
CallWider ==
    /\ pc = "done"
    /\ args.op = "ellipsize"
    /\ \E w2 \in args.max_width..(2 * MaxWidth) :
          /\ args' = [args EXCEPT !.max_width = w2]
          /\ ret' = [text |-> ellipsize(args.text, args.font, w2)]
    /\ loc' = [max_width |-> args.max_width, text |-> ret.text]
    /\ pc' = "again"
    /\ UNCHANGED <<HYPHENATOR, HYPHENATE_HEADERS>>

SpecEllipsize ==
    Start([op : {"ellipsize"}, text : Texts(MaxLen), font : WrapFonts,
           max_width : 0..(2 * MaxWidth)])
    /\ [][CallEllipsize \/ CallWider]_vars

(***************************************************************************)
(* Properties of ellipsize                                                 *)
(***************************************************************************)
EllipsizeDone == pc \in {"done", "again"} /\ args.op = "ellipsize"

\* text[:k] followed by the marker
Cut(text, k) == Append(Prefix(text, k), ELLIPSIS)
CutFits(text, font, k, w) == text_width(Cut(text, k), font) <= w

\* C12: ellipsize returns a text that fits unchanged; otherwise text[:k]
\* followed by the marker, for the largest k for which that fits, and the
\* bare marker when not even k = 0 fits; any result other than the bare
\* marker fits the width.
C12_LargestFittingPrefix ==
    EllipsizeDone =>
        /\ text_width(args.text, args.font) <= args.max_width => ret.text = args.text
        /\ text_width(args.text, args.font) > args.max_width =>
              /\ CutFits(args.text, args.font, 0, args.max_width) =>
                    \E k \in 0..Len(args.text) :
                        /\ ret.text = Cut(args.text, k)
                        /\ CutFits(args.text, args.font, k, args.max_width)
                        /\ \A m \in (k + 1)..Len(args.text) :
                              ~CutFits(args.text, args.font, m, args.max_width)
              /\ ~CutFits(args.text, args.font, 0, args.max_width) =>
                    ret.text = <<ELLIPSIS>>
        /\ ret.text # <<ELLIPSIS>> => text_width(ret.text, args.font) <= args.max_width

\* a text of three characters and more is cut in its middle
C12_Witness ==
    /\ EllipsizeDone
    /\ Len(args.text) >= 3
    /\ text_width(args.text, args.font) > args.max_width
    /\ Len(ret.text) >= 2
    /\ Len(ret.text) < Len(args.text)

\* the text a result keeps: the result without its ellipsis marker
Kept(result) ==
    IF result # <<>> /\ result[Len(result)] = ELLIPSIS
    THEN SubSeq(result, 1, Len(result) - 1)
    ELSE result

IsPrefix(s, t) == Len(s) <= Len(t) /\ SubSeq(t, 1, Len(s)) = s

\* C13: for the same text and font and widths w1 <= w2, the text ellipsize
\* keeps at w1 is a prefix of the text it keeps at w2, and the result at w1
\* is no longer than the result at w2.
C13_TruncationMonotone ==
    (pc = "again" /\ args.op = "ellipsize") =>
        /\ loc.max_width <= args.max_width
        /\ IsPrefix(Kept(loc.text), Kept(ret.text))
        /\ Len(loc.text) <= Len(ret.text)

\* both widths cut the text, the wider one later
C13_Witness ==
    /\ pc = "again" /\ args.op = "ellipsize"
    /\ loc.max_width < args.max_width
    /\ Kept(loc.text) # loc.text /\ Kept(ret.text) # ret.text
    /\ Len(Kept(loc.text)) >= 1
    /\ Len(loc.text) < Len(ret.text)

(***************************************************************************)
(* Zebra bands                                                             *)
(***************************************************************************)
\* C14: the band of a data row follows the parity of its row index alone:
\* all slices of a row, on whichever page, carry the same band decision, and
\* the slices of two consecutive rows carry opposite decisions.
C14_ZebraByRowIndex ==
    LET slices == AllSlices(DrawnPages)
    IN \A a, b \in 1..Len(slices) :
          /\ slices[a].zebra_on = ((slices[a].row - 1) % 2 = 0)
          /\ slices[a].row = slices[b].row => slices[a].zebra_on = slices[b].zebra_on
          /\ slices[b].row = slices[a].row + 1 => slices[a].zebra_on # slices[b].zebra_on

\* two rows are drawn and one of them is cut by a page break
C14_Witness ==
    /\ PagesDone
    /\ \E p, q \in 1..Len(ret) : \E k \in 1..Len(ret[p].slices) :
          \E m \in 1..Len(ret[q].slices) :
             p < q /\ ret[p].slices[k].row = ret[q].slices[m].row
    /\ \E a, b \in 1..Len(AllSlices(ret)) :
          AllSlices(ret)[b].row = AllSlices(ret)[a].row + 1

(***************************************************************************)
(* Specification of render_pages_dynamic on ragged tables: rows shorter    *)
(* and longer than the header, and empty rows                              *)
(***************************************************************************)
\* rows of no, one, two and three cells under headers of one and two columns
SpecRagged ==
    Start(LET QueryCell == <<"(", "a", " ", "O", "R", " ", "a", ")", " ", "(", "(", "(">>
              RaggedRows ==
                  { <<>>,
                    << <<"a">> >>,
                    << <<"a">>, QueryCell >>,
                    << <<Space>> >>,
                    << <<"a">>, <<"a">>, Repeat(3, "a") >> }
          IN  {[op |-> "render_pages_dynamic", header |-> h, rows |-> rs,
                orientation |-> o, custom_font_pt |-> s] :
                  h \in { << <<"a">> >>, << <<"a">>, <<"a">> >> },
                  o \in Orientations, s \in {0, 700},
                  rs \in UNION {[1..n -> RaggedRows] : n \in 0..MaxRows}})
    /\ [][NextPages]_vars

(***************************************************************************)
(* Properties of ragged tables                                             *)
(***************************************************************************)
\* the table with every row brought to the header's length: missing cells
\* are empty cells, cells beyond the header are dropped
Padded(rows, n) ==
    [r \in 1..Len(rows) |->
        [j \in 1..n |-> IF j <= Len(rows[r]) THEN rows[r][j] ELSE <<>>]]

\* C15: width allocation and rendering of a ragged table go through, and
\* lay the table out as the table in which every missing cell is an empty
\* cell and the cells beyond the header are left out: the same column widths
\* and the same wrapped lines.
C15_RaggedAsPadded ==
    /\ pc = "wrap" =>
          loc.col_widths =
              equal_width_with_buffer(loc.place_w, args.header,
                                      Padded(args.rows, Len(args.header)),
                                      loc.font_body, loc.font_header, PAD_X,
                                      MAX_COL_SHARE_DEFAULT_PCT)
    /\ pc = "simulate" =>
          loc.wrapped_rows =
              [r \in 1..Len(args.rows) |->
                  wrap_row_cells(Padded(args.rows, Len(args.header))[r],
                                 Len(args.header), loc.col_widths, loc.font_body)]

(***************************************************************************)
(* Specification of wrap_text on one long token with the body settings     *)
(***************************************************************************)
\* longest token
MaxToken == 40
\* most characters of the token that the inner width holds, and how many
\* smaller widths are tried
MaxFit == 10
FitRange == 5

\* one token of 1..MaxToken equal characters in a column as wide as k of them
SpecToken ==
    Start({[op |-> "wrap_text", text |-> [i \in 1..n |-> c], font |-> f,
            max_width |-> k * f * Glyph(c), hard_chunk |-> BODY_HARD_WRAP_CHARS] :
              n \in 1..MaxToken, c \in {"a", "W"}, f \in WrapFonts,
              k \in (MaxFit - FitRange)..MaxFit})
    /\ [][CallWrap]_vars

(***************************************************************************)
(* Properties of a long token                                              *)
(***************************************************************************)
\* a token of n characters wrapped at an inner width of exactly fit of them
TokenCase(n, fit) ==
    /\ WrapDone
    /\ OneToken(args)
    /\ Len(args.text) = n
    /\ args.hard_chunk = BODY_HARD_WRAP_CHARS
    /\ inner_of(args) = text_width(Prefix(args.text, fit), args.font)

\* C16 as stated: a token of 40 characters at an inner width of exactly 10
\* of them comes back in 4 lines, each but the last ending in the marker.
C16_FourLines ==
    TokenCase(40, 10) =>
        /\ Len(ret.lines) = 4
        /\ \A k \in 1..Len(ret.lines) : EndsWithShy(ret.lines[k]) <=> k < Len(ret.lines)

\* C16, amended: room for a "-" is kept on every cut line, so a line holds 9
\* characters and the token comes back in 5 lines: four of 9 characters and
\* the marker, and a last line of the 4 characters left, without the marker.
C16_FiveLines ==
    TokenCase(40, 10) =>
        /\ Len(ret.lines) = 5
        /\ \A k \in 1..4 : ret.lines[k] = Append(SubSeq(args.text, 9 * k - 8, 9 * k), SHY)
        /\ ret.lines[5] = SubSeq(args.text, 37, 40)

C16_Witness == TokenCase(40, 10) /\ Len(ret.lines) = 5

(***************************************************************************)
(* Specification of equal_width_with_buffer on a search-history table:     *)
(* the columns ID, Search and Hits with one row, at the default font sizes *)
(***************************************************************************)
SearchHeader ==
    << <<"I", "D">>, <<"S", "e", "a", "r", "c", "h">>, <<"H", "i", "t", "s">> >>

\* 'A AND B AND (C OR D)'
SearchText ==
    <<"A", " ", "A", "N", "D", " ", "B", " ", "A", "N", "D", " ",
      "(", "C", " ", "O", "R", " ", "D", ")">>

\* the usable width, and how many narrower widths are tried with it
SearchPlaceW == 1000
MaxNarrower == 60

\* the table ID | Search | Hits with the row #1 | SearchText | 1532, at the
\* default fonts and padding, in a usable width of up to SearchPlaceW
SpecSearch ==
    Start({[op |-> "equal_width_with_buffer", place_w |-> SearchPlaceW - d,
            header |-> SearchHeader,
            rows |-> << << <<"#", "1">>, SearchText, <<"1", "5", "3", "2">> >> >>,
            font_body |-> load_fonts(DEFAULT_BODY_SIZE, DEFAULT_BODY_SIZE + 4)[1],
            font_header |-> load_fonts(DEFAULT_BODY_SIZE, DEFAULT_BODY_SIZE + 4)[2],
            pad_x |-> PAD_X] : d \in 0..MaxNarrower})
    /\ [][CallWidths]_vars

(***************************************************************************)
(* Properties of the search-history table                                  *)
(***************************************************************************)
SearchDone ==
    pc = "done" /\ args.op = "equal_width_with_buffer" /\ args.header = SearchHeader

\* C17: of the columns ID, Search and Hits only Search is classified
\* query-like; its width is above 45% and at most 60% of the page width, and
\* when its text with the padding is within the 60% cap the column holds the
\* text on one line.
C17_SearchColumnWide ==
    SearchDone =>
        /\ is_query_col_of(args.header, args.rows) = <<FALSE, TRUE, FALSE>>
        /\ ret[2] * 100 > MAX_COL_SHARE_DEFAULT_PCT * args.place_w
        /\ ret[2] * 100 <= MAX_COL_SHARE_QUERY_PCT * args.place_w
        /\ text_width(SearchText, args.font_body) + 2 * args.pad_x
              <= cap_of(args.place_w, TRUE, MAX_COL_SHARE_DEFAULT_PCT)
           => Len(wrap_text(SearchText, args.font_body,
                            Max(1, ret[2] - 2 * args.pad_x), BODY_HARD_WRAP_CHARS)) = 1

\* the table at 1000 pixels: the text fits the cap and the column got more
\* than its natural width
C17_Witness ==
    /\ SearchDone
    /\ args.place_w = 1000
    /\ text_width(SearchText, args.font_body) + 2 * args.pad_x
          <= cap_of(args.place_w, TRUE, MAX_COL_SHARE_DEFAULT_PCT)
    /\ ret[2] > text_width(SearchText, args.font_body) + 2 * args.pad_x

(***************************************************************************)
(* Specification of render_pages_dynamic on tables of one-line rows        *)
(***************************************************************************)
\* most rows of such a table
MaxOneLineRows == 24

\* 0..MaxOneLineRows rows of one line each under a header of one line;
\* custom_font_pt: at 120 a portrait page holds 20 rows, at 300 and 700 a few
SpecOneLine ==
    Start({[op |-> "render_pages_dynamic", header |-> << <<"a">> >>,
            rows |-> [r \in 1..n |-> << <<"a">> >>],
            orientation |-> o, custom_font_pt |-> s] :
              n \in 0..MaxOneLineRows, o \in Orientations, s \in {120, 300, 700}})
    /\ [][RenderBegin \/ RenderWidths \/ RenderWrap \/ SimNewPage \/ SimSlice \/ SimReturn
             \/ DrawRowEnd \/ DrawSlice \/ DrawReturn]_vars

(***************************************************************************)
(* Properties of tables of one-line rows                                   *)
(***************************************************************************)
\* the one-line rows that the page body below the table header holds
RowsPerPage == (loc.place_h - loc.band_h - loc.header_h) \div min_block_of(loc)

\* ceil(a / b)
CeilDiv(a, b) == (a + b - 1) \div b

\* a table of at least one row, each row of one line, is rendered
OneLineCase ==
    /\ PagesDone
    /\ Len(args.rows) >= 1
    /\ \A r \in 1..Len(args.rows) : MostLines(loc.wrapped_rows[r]) = 1
    /\ RowsPerPage >= 1

\* C18: R one-line rows on pages that hold exactly k of them come out on
\* ceil(R / k) pages, and page i carries the indicator i of ceil(R / k).
C18_CeilPages ==
    OneLineCase =>
        /\ Len(ret) = CeilDiv(Len(args.rows), RowsPerPage)
        /\ \A i \in 1..Len(ret) :
              ret[i].idx = i /\ ret[i].total = CeilDiv(Len(args.rows), RowsPerPage)

(***************************************************************************)
(* normalize_rows                                                          *)
(***************************************************************************)
\* the byte order mark U+FEFF, one character
BOM == "BOM"

\* a cell that is None, and a row that is None; a row as read is a record
\* of its cells
NoneCell == <<None>>
NoneRow == [is_none |-> TRUE, cells |-> <<>>]
Row(cells) == [is_none |-> FALSE, cells |-> cells]

\* for row in rows: rows that are None and rows without a cell that has
\* anything but spaces are left out; None cells become "".
\* str_cell: "" if cell is None else str(cell); strip_is_empty:
\* fragment.strip() is empty exactly when the text has spaces only
RECURSIVE cleaned_of(_)
cleaned_of(rows) ==
    IF rows = <<>> THEN <<>>
    ELSE LET row == Head(rows)
             str_cell(cell) == IF cell = NoneCell THEN <<>> ELSE cell
             strip_is_empty(fragment) == \A i \in 1..Len(fragment) : fragment[i] = Space
             normalized == [j \in 1..Len(row.cells) |-> str_cell(row.cells[j])]
         IN IF ~row.is_none /\ \E j \in 1..Len(normalized) : ~strip_is_empty(normalized[j])
            THEN <<normalized>> \o cleaned_of(Tail(rows))
            ELSE cleaned_of(Tail(rows))

\* text.lstrip of the byte order mark
RECURSIVE lstrip_bom(_)
lstrip_bom(text) ==
    IF text # <<>> /\ Head(text) = BOM THEN lstrip_bom(Tail(text)) ELSE text

\* max_cols = max(len(r) for r in cleaned); each row becomes
\* r + [""] * (max_cols - len(r)) if len(r) < max_cols else list(r[:max_cols])
normalize_rows(rows) ==
    IF rows = <<>> THEN <<>>
    ELSE LET cleaned == cleaned_of(rows)
         IN IF cleaned = <<>> THEN <<>>
            ELSE LET first == IF cleaned[1] # <<>>
                              THEN [cleaned[1] EXCEPT ![1] = lstrip_bom(@)]
                              ELSE cleaned[1]
                     stripped == <<first>> \o Tail(cleaned)
                     max_cols == SetMax({Len(stripped[r]) : r \in 1..Len(stripped)})
                     fit_row(r) ==
                         IF Len(r) < max_cols
                         THEN r \o [j \in 1..(max_cols - Len(r)) |-> <<>>]
                         ELSE SubSeq(r, 1, max_cols)
                 IN [r \in 1..Len(stripped) |-> fit_row(stripped[r])]

(***************************************************************************)
(* Specification of normalize_rows: tables read from a file, rows of any   *)
(* length                                                                  *)
(***************************************************************************)
\* most rows of the table read
MaxReadRows == 3

CallNormalize ==
    /\ pc = "ready"
    /\ args.op = "normalize_rows"
    /\ ret' = [rows |-> normalize_rows(args.rows)]
    /\ pc' = "done"
    /\ UNCHANGED <<args, loc, HYPHENATOR, HYPHENATE_HEADERS>>

\* up to MaxReadRows rows as read: None, without cells, blank, and of one to
\* three cells
SpecNormalize ==
    Start(LET ReadRows ==
                  { NoneRow,
                    Row(<<>>),
                    Row(<< <<Space>>, NoneCell >>),
                    Row(<< <<BOM, "a">> >>),
                    Row(<< <<"a">>, <<"a">> >>),
                    Row(<< <<"a">>, NoneCell, <<"W">> >>),
                    Row(<< NoneCell, <<Space, "a">> >>) }
          IN  {[op |-> "normalize_rows", rows |-> rs] :
                  rs \in UNION {[1..n -> ReadRows] : n \in 0..MaxReadRows}})
    /\ [][CallNormalize]_vars

(***************************************************************************)
(* Properties of normalize_rows                                            *)
(***************************************************************************)
NormalizeDone == pc = "done" /\ args.op = "normalize_rows"

\* the rows kept, as read; the first of them is the header row
KeptRows == cleaned_of(args.rows)

\* C19: every row normalize_rows returns has as many cells as the header
\* row, the first row kept: the header keeps its length, a shorter row is
\* padded with empty cells and a longer row is cut to the header's length.
C19_RowsAsLongAsHeader ==
    (NormalizeDone /\ KeptRows # <<>>) =>
        /\ Len(ret.rows) = Len(KeptRows)
        /\ \A r \in 1..Len(ret.rows) :
              /\ Len(ret.rows[r]) = Len(KeptRows[1])
              /\ \A j \in 1..Len(ret.rows[r]) :
                    r > 1 => ret.rows[r][j] = IF j <= Len(KeptRows[r]) THEN KeptRows[r][j]
                                              ELSE <<>>

(***************************************************************************)
(* Specification of wrap_text called twice with the same arguments, with   *)
(* configure_hyphenation called before and between the calls; the texts    *)
(* may hold soft hyphens of their own                                      *)
(***************************************************************************)
\* configure_hyphenation between the two calls
ConfigureBetween ==
    /\ pc = "done"
    /\ args.op = "wrap_text"
    /\ \E enable_headers \in BOOLEAN, hyphenator \in {None, Pyphen} :
          /\ HYPHENATOR' = hyphenator
          /\ HYPHENATE_HEADERS' = enable_headers
    /\ UNCHANGED <<pc, args, ret, loc>>

\* the second call, with the arguments of the first; the lines of the first
\* call are kept
CallWrapAgain ==
    /\ pc = "done"
    /\ args.op = "wrap_text"
    /\ loc' = [lines |-> ret.lines]
    /\ ret' = wrap_run(args.text, args.font, args.max_width, args.hard_chunk)
    /\ pc' = "again"
    /\ UNCHANGED <<args, HYPHENATOR, HYPHENATE_HEADERS>>

\* texts that may hold soft hyphens of their own
SpecTwice ==
    Start([op : {"wrap_text"}, text : UNION {[1..k -> {"a", SHY}] : k \in 0..MaxLen},
           font : WrapFonts, max_width : 0..MaxWidth, hard_chunk : HardChunks])
    /\ [][Configure \/ CallWrap \/ ConfigureBetween \/ CallWrapAgain]_vars

(***************************************************************************)
(* Properties of repeated calls                                            *)
(***************************************************************************)
\* C20: two calls of wrap_text with the same text, font, width and hard
\* chunk return the same lines, whatever configure_hyphenation set before or
\* between them.
C20_SameArgsSameLines ==
    (pc = "again" /\ args.op = "wrap_text") => ret.lines = loc.lines

(***************************************************************************)
(* Specification of wrap_text on a body cell: the hard chunk of the body,  *)
(* any configuration of hyphenation before the call                        *)
(***************************************************************************)
\* cells that may hold soft hyphens of their own
SpecBody ==
    Start([op : {"wrap_text"},
           text : UNION {[1..k -> {Space, "a", SHY}] : k \in 0..MaxLen},
           font : WrapFonts, max_width : 0..MaxWidth, hard_chunk : {BODY_HARD_WRAP_CHARS}])
    /\ [][NextWrap]_vars

(***************************************************************************)
(* Properties of body cells                                                *)
(***************************************************************************)
\* the lines of a text wrapped by the character-prefix split alone
PrefixSplitLines(text, font, max_width, hard_chunk) ==
    IF text = <<>> THEN << <<>> >>
    ELSE last_line(TokenLoop(split(text, Space), 1,
                             [lines |-> <<>>, current |-> <<>>, iters |-> 0],
                             font, Max(1, max_width), hard_chunk, FALSE)).lines

\* C21: a body cell is never split by the hyphenation dictionary: whatever
\* configure_hyphenation set, its lines are those of the character-prefix
\* split.
C21_BodyNeverHyphenated ==
    (pc = "done" /\ args.op = "wrap_text" /\ args.hard_chunk = BODY_HARD_WRAP_CHARS)
        => ret.lines = PrefixSplitLines(args.text, args.font, args.max_width,
                                        args.hard_chunk)

(***************************************************************************)
(* Specification of equal_width_with_buffer on tables with query-like      *)
(* columns                                                                 *)
(***************************************************************************)
\* most columns of a table with query-like columns
MaxQueryCols == 3

\* columns of three kinds: an ordinary one and two query-like ones, a short
\* and a long
SpecQuery ==
    Start(LET QueryKinds ==
                  { [header |-> <<"a">>, cells |-> << <<"a">>, <<>> >>],
                    [header |-> <<"O", "R">>,
                     cells |-> << <<"(", "a", " ", "O", "R", " ", "a", ")">>, <<"a">> >>],
                    [header |-> <<"a">>,
                     cells |-> << <<"(", "a", " ", "O", "R", " ", "a", ")", " ", "a", " ",
                                    "a", " ", "a", " ", "a", " ", "a", " ", "a">>,
                                  <<"(", "(", "(">> >>] }
          IN  {[op |-> "equal_width_with_buffer", place_w |-> w,
                header |-> header_of(cols), rows |-> rows_of(cols, 2),
                font_body |-> 1, font_header |-> 2, pad_x |-> p] :
                  w \in {27, 40, 60, 80}, p \in {0, 1},
                  cols \in UNION {[1..n -> QueryKinds] : n \in 0..MaxQueryCols}})
    /\ [][CallWidths]_vars

(***************************************************************************)
(* Properties of the query path                                            *)
(***************************************************************************)
QueryPathDone == WidthsDone /\ PathOf(args) = "query"

\* C22: on the query path all query-like columns are returned with one
\* common width.
C22_QueryColumnsEqual ==
    QueryPathDone =>
        \A i, j \in 1..NCols(args) :
            (IsQuery(args)[i] /\ IsQuery(args)[j]) => ret[i] = ret[j]


InitialW(a) ==
    initial_widths(a.place_w, a.header, a.rows, a.font_body, a.font_header, a.pad_x)

\* 60% of the usable width
QueryCap(a) == (a.place_w * 60) \div 100

\* a column that is not query-like was widened beyond its initial width
OtherWidened ==
    \E j \in 1..NCols(args) : ~IsQuery(args)[j] /\ ret[j] > InitialW(args)[j]

\* C23: on the query path a column that is not query-like is widened beyond
\* its initial width only when every query-like column has reached its cap.
C23_QueryColumnsFirst ==
    (QueryPathDone /\ OtherWidened) =>
        \A i \in 1..NCols(args) : IsQuery(args)[i] => ret[i] >= QueryCap(args)

C23_Witness ==
    /\ QueryPathDone
    /\ OtherWidened
    /\ \A i \in 1..NCols(args) : IsQuery(args)[i] => ret[i] = QueryCap(args)

(***************************************************************************)
(* Properties of the character-prefix split                                *)
(***************************************************************************)
\* one token, a hard chunk configured, and no syllable split in effect
PrefixSplitCase ==
    /\ WrapDone
    /\ OneToken(args)
    /\ args.hard_chunk > 0
    /\ ~(HYPHENATE_HEADERS /\ HYPHENATOR # None)

\* C24: split by character prefix with a hard chunk h, every piece that ends
\* with the marker holds at least 1 and at most h characters of the token,
\* and every iteration shortens the remaining token: each of the iterations
\* emits one piece of at least one character, and the pieces together are
\* the token.
C24_PiecesWithinChunk ==
    PrefixSplitCase =>
        /\ \A k \in 1..Len(ret.lines) :
              EndsWithShy(ret.lines[k]) =>
                  Len(ret.lines[k]) - 1 \in 1..args.hard_chunk
        /\ \A k \in 1..Len(ret.lines) : Len(StripShy(ret.lines[k])) >= 1
        /\ ret.iters = Len(ret.lines)
        /\ SumSeq([k \in 1..Len(ret.lines) |-> Len(StripShy(ret.lines[k]))])
               = Len(args.text)

\* the hard chunk cuts a piece shorter than the width would allow
C24_Witness ==
    /\ PrefixSplitCase
    /\ Len(args.text) > args.hard_chunk
    /\ text_width(Prefix(args.text, args.hard_chunk + 1) \o <<HYPHEN>>, args.font)
           <= inner_of(args)
    /\ Len(ret.lines[1]) = args.hard_chunk + 1
    /\ EndsWithShy(ret.lines[1])

(***************************************************************************)
(* Properties of emitted pages                                             *)
(***************************************************************************)
\* C25: a page appended to the output is never drawn on again: a step of the
\* drawing loop leaves every emitted page as it is, the pages it adds come
\* after them and are numbered in the order they were started, and the
\* returned list is the emitted pages followed by the page under
\* construction.
C25_EmittedPagesFrozen ==
    [][(pc = "draw" /\ args.op = "render_pages_dynamic") =>
          /\ pc' = "draw" =>
                /\ Len(loc'.pages) >= Len(loc.pages)
                /\ \A i \in 1..Len(loc.pages) : loc'.pages[i] = loc.pages[i]
                /\ \A i \in 1..Len(loc'.pages) : loc'.pages[i].idx = i
                /\ loc'.canvas.idx = Len(loc'.pages) + 1
          /\ pc' = "done" => ret' = Append(loc.pages, loc.canvas)]_vars

\* a slice is drawn on a page started after a page break
C25_Witness ==
    /\ pc = "draw"
    /\ args.op = "render_pages_dynamic"
    /\ Len(loc.pages) >= 1
    /\ loc.pages[1].slices # <<>>
    /\ loc.canvas.slices # <<>>

(***************************************************************************)
(* Specification of flex_fit_widths: up to MaxFlexCols columns of small    *)
(* and of very large widths                                                *)
(***************************************************************************)
MaxFlexCols == 2

CallFlex ==
    /\ pc = "ready"
    /\ args.op = "flex_fit_widths"
    /\ ret' = flex_fit_widths(args.base, args.minw, args.target_width)
    /\ pc' = "done"
    /\ UNCHANGED <<args, loc, HYPHENATOR, HYPHENATE_HEADERS>>

SpecFlex ==
    Start(UNION {{[op |-> "flex_fit_widths", base |-> b, minw |-> m, target_width |-> t] :
                     b \in [1..n -> {0, 1, 3, 30000}], m \in [1..n -> {0, 2, 20000}],
                     t \in {0, 5, 10, 30000}} : n \in 0..MaxFlexCols})
    /\ [][CallFlex]_vars

(***************************************************************************)
(* Properties of flex_fit_widths                                           *)
(***************************************************************************)
FlexDone == pc = "done" /\ args.op = "flex_fit_widths"

RestOf(lines, offs, j) == Len(lines[j]) - offs[j]
MostRest(lines, offs) == SetMax({0} \cup {RestOf(lines, offs, j) : j \in 1..Len(lines)})

\* a slice as the drawing loop drew it
SliceAsClaimed(s) ==
    LET lines == loc.wrapped_rows[s.row]
        k_fit == k_fit_of(loc, avail_of(loc, s.y))
        k_used == SetMax({0} \cup {s.take[j] : j \in 1..Len(s.take)})
    IN /\ k_fit >= 1
       /\ \A j \in 1..Len(lines) : s.take[j] = Min(k_fit, RestOf(lines, s.offs, j))
       /\ k_used >= 1
       /\ s.slice_h = 2 * PAD_Y + k_used * loc.one_h_body + (k_used - 1) * LINE_GAP
       /\ \A j \in 1..Len(lines) :
              s.take[j] >= 1 =>
                  PAD_Y + s.take[j] * loc.one_h_body + (s.take[j] - 1) * LINE_GAP
                      <= s.slice_h

DrawnAsClaimed ==
    \A p \in 1..Len(DrawnPages) : \A k \in 1..Len(DrawnPages[p].slices) :
        SliceAsClaimed(DrawnPages[p].slices[k])

\* a step of simulate_pages within the rows, other than the start of a page
\* for want of room
SimStep ==
    /\ pc = "simulate" /\ pc' = "simulate"
    /\ args.op = "render_pages_dynamic"
    /\ ~(loc'.r = loc.r /\ loc'.offs = loc.offs)

SimAsClaimed ==
    LET lines == loc.wrapped_rows[loc.r]
        k_fit == k_fit_of(loc, avail_of(loc, loc.y))
        most == MostRest(lines, loc.offs)
    IN IF loc'.r = loc.r
       THEN /\ \A j \in 1..Len(lines) :
                  loc'.offs[j] - loc.offs[j] = Min(k_fit, RestOf(lines, loc.offs, j))
            /\ \E j \in 1..Len(lines) : loc'.offs[j] > loc.offs[j]
            /\ loc'.sim_pages = loc.sim_pages =>
                  loc'.y - loc.y = 2 * PAD_Y + Min(k_fit, most) * loc.one_h_body
                                       + (Min(k_fit, most) - 1) * LINE_GAP
       ELSE IF most = 0 THEN loc'.y = loc.y
       ELSE /\ most <= k_fit
            /\ loc'.y - loc.y = 2 * PAD_Y + most * loc.one_h_body + (most - 1) * LINE_GAP

\* C27: in every slice of a row, counted by simulate_pages or drawn, each
\* column emits min(k_fit, remaining lines) lines, the slice is as high as
\* the most lines a column emits, so that no column's lines reach below it,
\* and at least one line is consumed.
C27_SlicesTakeWhatFits ==
    [][(SimStep => SimAsClaimed) /\ DrawnAsClaimed']_vars

\* a row cut at the page bottom: in its first slice the first column emits
\* more lines than the second, in its second slice, on the next page, the
\* second column has no line left and emits none
C27_Witness ==
    /\ pc = "draw"
    /\ args.op = "render_pages_dynamic"
    /\ Len(args.header) = 2
    /\ Len(loc.pages) = 1
    /\ Len(loc.pages[1].slices) = 1
    /\ loc.pages[1].slices[1].take[1] > loc.pages[1].slices[1].take[2]
    /\ loc.pages[1].slices[1].take[2] >= 1
    /\ Len(loc.canvas.slices) = 1
    /\ loc.canvas.slices[1].row = loc.pages[1].slices[1].row
    /\ loc.canvas.slices[1].take[1] >= 1
    /\ loc.canvas.slices[1].take[2] = 0


(***************************************************************************)
(* The header-font loop over body sizes and header widths                  *)
(***************************************************************************)
MaxFontPt == 20
MaxHeaderCols == 21

\* tables of 1..MaxHeaderCols columns, each header one word of five wide
\* letters, at every body size of the font spin box from 8 up, and the default
SpecHeader ==
    Start({[op |-> "render_pages_dynamic",
            header |-> [j \in 1..n |-> chars(HEADER_HARD_WRAP_CHARS, "W")],
            rows |-> <<>>, orientation |-> o, custom_font_pt |-> s] :
              n \in 1..MaxHeaderCols, o \in Orientations, s \in {0} \cup 8..MaxFontPt})
    /\ [][RenderBegin]_vars

\* the header loop of render_pages_dynamic has ended
HeaderLoopDone == pc = "widths" /\ args.op = "render_pages_dynamic"

\* C28: the header-font loop ends for every body size, and the header size it
\* leaves is never below the minimum of 16, for every header and page width
C28_HeaderSizeAtLeastMin ==
    HeaderLoopDone => loc.header_size >= MIN_HEADER


(***************************************************************************)
(* App.run of csv_converter_ui.py: the hyphenation state over the runs the *)
(* "Erstellen" button starts                                               *)
(***************************************************************************)
MaxRuns == 2

\* the settings of the window when the button is pressed; chosen is the path
\* the save dialog of choose_save leaves
RunSettings(run, has_pyphen) ==
    [op : {"App.run"}, run : {run}, has_pyphen : {has_pyphen},
     csv_path : {"", "a.txt", "a.csv"}, save_path : {"", "out"}, chosen : {"", "out"},
     choice : {"Auto (DE/EN)", "Deutsch (de_DE)", "Englisch (en_US)", "Aus (keine)"}]

\* the checks before the try block: without an input path, or without an
\* output path after choose_save, run returns at once
RunBegin ==
    /\ pc = "ready"
    /\ args.op = "App.run"
    /\ loc' = [outcome |-> "running", hyphenator |-> None, enable_headers |-> FALSE]
    /\ pc' = IF args.csv_path = "" \/ (args.save_path = "" /\ args.chosen = "")
             THEN "run_done" ELSE "read"
    /\ UNCHANGED <<args, ret, HYPHENATOR, HYPHENATE_HEADERS>>

\* the input is read inside the try block: it yields a table, or run returns
\* after an error box (CSV only), or the reader raises
RunRead ==
    /\ pc = "read"
    /\ \E outcome \in IF args.csv_path = "a.txt" THEN {"ok", "failed"}
                      ELSE {"ok", "returned", "failed"} :
          /\ loc' = [loc EXCEPT !.outcome = outcome]
          /\ pc' = IF outcome = "ok" THEN "configure" ELSE "finally"
    /\ UNCHANGED <<args, ret, HYPHENATOR, HYPHENATE_HEADERS>>

\* hyphenator = make_hyphenator(choice, header); configure_hyphenation(
\*     bool(hyphenator) and not choice.startswith("Aus"), hyphenator).
\* make_hyphenator returns None without pyphen or with the choice "Aus
\* (keine)"; otherwise the hyphenator, or None when pyphen.Pyphen(lang) raises
RunConfigure ==
    /\ pc = "configure"
    /\ \E hyphenator \in IF ~args.has_pyphen \/ args.choice = "Aus (keine)"
                         THEN {None} ELSE {Pyphen, None} :
          LET enable_headers == hyphenator # None /\ args.choice # "Aus (keine)"
          IN /\ HYPHENATOR' = hyphenator
             /\ HYPHENATE_HEADERS' = enable_headers
             /\ loc' = [loc EXCEPT !.hyphenator = hyphenator,
                                   !.enable_headers = enable_headers]
    /\ pc' = "convert"
    /\ UNCHANGED <<args, ret>>

\* the conversion step: the pages are rendered and saved, or the workbook is
\* written; any of it may raise, and except Exception shows the error
RunConvert ==
    /\ pc = "convert"
    /\ \E outcome \in {"saved", "failed"} : loc' = [loc EXCEPT !.outcome = outcome]
    /\ pc' = "finally"
    /\ UNCHANGED <<args, ret, HYPHENATOR, HYPHENATE_HEADERS>>

\* the finally block without its last statement
RunFinally_NoReset ==
    /\ pc = "finally"
    /\ pc' = "run_done"
    /\ UNCHANGED <<args, ret, loc, HYPHENATOR, HYPHENATE_HEADERS>>

\* finally: the temporary files are removed, then configure_hyphenation(False,
\* None)
RunFinally ==
    /\ pc = "finally"
    /\ HYPHENATOR' = None
    /\ HYPHENATE_HEADERS' = FALSE
    /\ pc' = "run_done"
    /\ UNCHANGED <<args, ret, loc>>

\* the button is pressed again, with any settings; pyphen stays as imported
RunAgain ==
    /\ pc = "run_done"
    /\ args.run < MaxRuns
    /\ args' \in RunSettings(args.run + 1, args.has_pyphen)
    /\ loc' = NoLocals
    /\ pc' = "ready"
    /\ UNCHANGED <<ret, HYPHENATOR, HYPHENATE_HEADERS>>

SpecRun ==
    Start(UNION {RunSettings(1, has_pyphen) : has_pyphen \in BOOLEAN})
    /\ [][RunBegin \/ RunRead \/ RunConfigure \/ RunConvert \/ RunFinally \/ RunAgain]_vars

(***************************************************************************)
(* Properties of App.run                                                   *)
(***************************************************************************)
HyphenationOff == HYPHENATOR = None /\ HYPHENATE_HEADERS = FALSE

\* C29: whenever a run of App.run is over, and whenever the next one starts,
\* hyphenation is disabled (HYPHENATE_HEADERS False, HYPHENATOR None): after a
\* conversion that succeeded, after an early return and after an exception
C29_RunResetsHyphenation ==
    (args.op = "App.run" /\ pc \in {"ready", "run_done"}) => HyphenationOff

\* a second run that enabled header hyphenation and then failed in the
\* conversion step is over
C29_Witness ==
    /\ args.op = "App.run"
    /\ pc = "run_done"
    /\ args.run = 2
    /\ loc.outcome = "failed"
    /\ loc.hyphenator = Pyphen
    /\ loc.enable_headers


(***************************************************************************)
(* _parse_cochrane_search_manager_txt: the loop over the lines that follow *)
(* the table head "ID<TAB>Search<TAB>Hits"                                 *)
(***************************************************************************)
TAB == "\t"
Digits == {"0", "1", "2", "3", "4", "5", "6", "7", "8", "9"}
\* current_id is None: no record is open (an id is never empty)
NoId == <<>>

\* the characters \s matches, of those the lines are made of
IsWhite(c) == c \in {Space, TAB}

\* how many digits \d+ takes from position i on
RECURSIVE DigitRun(_, _)
DigitRun(s, i) == IF i <= Len(s) /\ s[i] \in Digits THEN 1 + DigitRun(s, i + 1) ELSE 0

\* id_line_re.match(line), ^#?(\d+)\t(.*)$: group 1 is id, group 2 is rest
id_line_match(line) ==
    LET first == IF line # <<>> /\ line[1] = "#" THEN 2 ELSE 1
        n == DigitRun(line, first)
        ok == n >= 1 /\ first + n <= Len(line) /\ line[first + n] = TAB
    IN [ok |-> ok,
        id |-> IF ok THEN SubSeq(line, first, first + n - 1) ELSE <<>>,
        rest |-> IF ok THEN SubSeq(line, first + n + 1, Len(line)) ELSE <<>>]

\* re.search(r"\t(\d+)\s*$", s): the leftmost tab that is followed by digits
\* and then by nothing but whitespace; start is hits_match.start(), hits is
\* group 1
hits_search(s) ==
    LET found == {i \in 1..Len(s) :
                     /\ s[i] = TAB
                     /\ DigitRun(s, i + 1) >= 1
                     /\ \A q \in (i + 1 + DigitRun(s, i + 1))..Len(s) : IsWhite(s[q])}
        i0 == SetMin(found)
    IN IF found = {} THEN [ok |-> FALSE, start |-> 0, hits |-> <<>>]
       ELSE [ok |-> TRUE, start |-> i0 - 1,
             hits |-> SubSeq(s, i0 + 1, i0 + DigitRun(s, i0 + 1))]

\* flush_row: the row [disp_id, collapsed, hits_str.strip()]; collapsed joins
\* the non-empty chunks with blanks, tabs turned into blanks, and reduces
\* every run of whitespace to one blank, none at either end.  final_chunk is a
\* text, never None, in both calls.
flush_row(buffer, final_chunk, hits_str, current_id) ==
    LET parts == SelectSeq(Append(buffer, final_chunk), LAMBDA p : p # <<>>)
        blanks(p) == [i \in 1..Len(p) |-> IF p[i] = TAB THEN Space ELSE p[i]]
        joined == join([i \in 1..Len(parts) |->
                           (IF i > 1 THEN <<Space>> ELSE <<>>) \o blanks(parts[i])])
        words == findall_words(joined)
        collapsed == join([i \in 1..Len(words) |->
                              (IF i > 1 THEN <<Space>> ELSE <<>>) \o words[i]])
    IN << <<"#">> \o current_id, collapsed, hits_str >>

\* rows = [], current_id = None, buffer = []; k is the line the loop is at
ParseBegin ==
    /\ pc = "ready"
    /\ args.op = "_parse_cochrane_search_manager_txt"
    /\ loc' = [k |-> 1, rows |-> <<>>, current_id |-> NoId, buffer |-> <<>>]
    /\ pc' = "parse"
    /\ UNCHANGED <<args, ret, HYPHENATOR, HYPHENATE_HEADERS>>

\* one round of "for line in lines": a blank line is skipped; an ID line with
\* no record open opens one, and its rest is searched for the hits; with a
\* record open the whole line is searched; a row is flushed where the hits
\* are found, the text is buffered where not.  (The third "if match" of the
\* loop body is never reached with a match.)
ParseLine ==
    /\ pc = "parse"
    /\ loc.k <= Len(args.lines)
    /\ LET line == args.lines[loc.k]
           match == id_line_match(line)
           is_open == loc.current_id # NoId
           searched == IF is_open THEN line ELSE match.rest
           hits_match == hits_search(searched)
           id == IF is_open THEN loc.current_id ELSE match.id
       IN loc' = IF (\A q \in 1..Len(line) : IsWhite(line[q])) \/ (~is_open /\ ~match.ok)
                 THEN [loc EXCEPT !.k = @ + 1]
                 ELSE IF hits_match.ok
                 THEN [k |-> loc.k + 1,
                       rows |-> Append(loc.rows,
                                       flush_row(loc.buffer, Prefix(searched, hits_match.start),
                                                 hits_match.hits, id)),
                       current_id |-> NoId, buffer |-> <<>>]
                 ELSE [k |-> loc.k + 1, rows |-> loc.rows, current_id |-> id,
                       buffer |-> IF is_open THEN Append(loc.buffer, line)
                                  ELSE <<match.rest>>]
    /\ UNCHANGED <<pc, args, ret, HYPHENATOR, HYPHENATE_HEADERS>>

\* the end of the function without the flush of the open record
ParseEnd_NoFlush ==
    /\ pc = "parse"
    /\ loc.k > Len(args.lines)
    /\ ret' = [header |-> << <<"I", "D">>, <<"S", "e", "a", "r", "c", "h">>,
                             <<"H", "i", "t", "s">> >>,
               rows |-> loc.rows]
    /\ pc' = "done"
    /\ UNCHANGED <<args, loc, HYPHENATOR, HYPHENATE_HEADERS>>

\* if current_id is not None and buffer: flush_row(" ", ""); return header,
\* rows, meta
ParseEnd ==
    /\ pc = "parse"
    /\ loc.k > Len(args.lines)
    /\ ret' = [header |-> << <<"I", "D">>, <<"S", "e", "a", "r", "c", "h">>,
                             <<"H", "i", "t", "s">> >>,
               rows |-> IF loc.current_id # NoId /\ loc.buffer # <<>>
                        THEN Append(loc.rows,
                                    flush_row(loc.buffer, <<Space>>, <<>>, loc.current_id))
                        ELSE loc.rows]
    /\ pc' = "done"
    /\ UNCHANGED <<args, loc, HYPHENATOR, HYPHENATE_HEADERS>>

\* longest input, in lines
MaxLines == 3

\* inputs of up to MaxLines lines: blank lines, ID lines with and without
\* "#", with and without hits, with an empty rest, and lines of text with
\* and without hits, with whitespace after the hits
SpecParse ==
    Start(LET ParseLines ==
                  { <<Space>>,
                    <<"1", TAB, "a">>,
                    <<"#", "2", TAB, "a", TAB, "3">>,
                    <<"#", "1", TAB, "2">>,
                    <<"2", TAB>>,
                    <<"3", TAB, TAB, "8">>,
                    <<"a">>,
                    <<"a", TAB, "4">>,
                    <<"a", TAB, "5", Space>>,
                    <<TAB, "6">>,
                    <<"a", TAB, "9", "b">> }
          IN  [op : {"_parse_cochrane_search_manager_txt"},
               lines : UNION {[1..n -> ParseLines] : n \in 0..MaxLines}])
    /\ [][ParseBegin \/ ParseLine \/ ParseEnd]_vars

(***************************************************************************)
(* Properties of _parse_cochrane_search_manager_txt                        *)
(***************************************************************************)
ParseDone == pc = "done" /\ args.op = "_parse_cochrane_search_manager_txt"

\* the line starts like an ID line: an optional "#", digits, a tab
IsIdLine(line) == id_line_match(line).ok

\* the text ends in a tab followed by digits
EndsInTabDigits(s) ==
    \E i \in 1..Len(s) : s[i] = TAB /\ i < Len(s) /\ \A q \in (i + 1)..Len(s) : s[q] \in Digits

\* the text ends in a tab followed by digits and then, at most, whitespace
EndsInTabDigitsWhite(s) ==
    \E i \in 1..Len(s) : \E j \in (i + 1)..Len(s) :
        /\ s[i] = TAB
        /\ \A q \in (i + 1)..j : s[q] \in Digits
        /\ \A q \in (j + 1)..Len(s) : IsWhite(s[q])

\* the line closes the record that is open at it (or that it opens): as the
\* claim words it, the line ends in a tab and digits; as amended, the part of
\* the line after the ID and its tab (of the opening line), or the whole line
\* (of a later one), ends in a tab, digits and optional whitespace
Closes(line, opening, as_worded) ==
    IF as_worded THEN EndsInTabDigits(line)
    ELSE EndsInTabDigitsWhite(IF opening THEN id_line_match(line).rest ELSE line)

\* the records of the lines from k on, each with the line it is emitted at
\* (0: at the end of the input); open is the id of the record open at line k
RECURSIVE Records(_, _, _, _)
Records(lines, k, open, as_worded) ==
    IF k > Len(lines)
    THEN IF open # NoId THEN << [id |-> open, at |-> 0] >> ELSE <<>>
    ELSE LET line == lines[k]
             blank == \A q \in 1..Len(line) : IsWhite(line[q])
         IN IF blank \/ (open = NoId /\ ~IsIdLine(line))
            THEN Records(lines, k + 1, open, as_worded)
            ELSE LET id == IF open = NoId THEN id_line_match(line).id ELSE open
                 IN IF Closes(line, open = NoId, as_worded)
                    THEN << [id |-> id, at |-> k] >> \o Records(lines, k + 1, NoId, as_worded)
                    ELSE Records(lines, k + 1, id, as_worded)

\* the rows are the rows of the records, one three-cell row each, in order,
\* the Hits cell empty exactly for a record emitted at the end of the input
RowsOf(rows, records) ==
    /\ Len(rows) = Len(records)
    /\ \A i \in 1..Len(rows) :
          /\ Len(rows[i]) = 3
          /\ rows[i][1] = <<"#">> \o records[i].id
          /\ (rows[i][3] = <<>>) = (records[i].at = 0)

\* after every line the rows are those of the records emitted so far, and the
\* returned rows are those of all records
EmittedAsDescribed(as_worded) ==
    /\ (pc = "parse" /\ args.op = "_parse_cochrane_search_manager_txt")
          => RowsOf(loc.rows, SelectSeq(Records(args.lines, 1, NoId, as_worded),
                                         LAMBDA rec : rec.at \in 1..(loc.k - 1)))
    /\ ParseDone => RowsOf(ret.rows, Records(args.lines, 1, NoId, as_worded))

\* C30 as worded: every record opened by an ID line while no record is open
\* is emitted as exactly one three-cell row, in input order, at the first
\* line (the ID line itself or a later one) that ends in a tab followed by
\* digits, or at the end of the input with an empty Hits cell
C30_EmittedAtTabDigits == EmittedAsDescribed(TRUE)

\* C30 amended: the same, the record being emitted at the ID line if the part
\* of it after the ID and its tab ends in a tab, digits and optional
\* whitespace, else at the first later line that ends so, else at the end of
\* the input
C30_EmittedAtHitsMatch == EmittedAsDescribed(FALSE)

\* three lines are parsed into two rows: a record opened by the first line and
\* emitted at the second, and a record opened by the third line and emitted,
\* with empty Hits, at the end of the input
C30_Witness ==
    /\ ParseDone
    /\ Len(args.lines) = 3
    /\ IsIdLine(args.lines[1])
    /\ Records(args.lines, 1, NoId, FALSE) =
          << [id |-> id_line_match(args.lines[1]).id, at |-> 2],
             [id |-> id_line_match(args.lines[3]).id, at |-> 0] >>
    /\ Len(ret.rows) = 2

=============================================================================
